---- MODULE Spec2Model ----
(***************************************************************************)
(* A model of the remote-debug visitor (src/luadebug/rdebug_visitor.cpp):  *)
(* the ValuePath evaluator and assigner and the visitor operations built   *)
(* on them, acting on a host Lua state cL.                                 *)
(*                                                                         *)
(* A host value is a record [t, fl, v]: t is the Lua type code, fl is 1    *)
(* for a float number, v is the payload (a number, a string, or the heap   *)
(* index of a collectable object).  A ValuePath is a sequence of steps,    *)
(* outermost step first: p[1] is the C code's `v`, Tail(p) its `v + 1`.    *)
(***************************************************************************)
EXTENDS Integers, Sequences, FiniteSets, TLC

VARIABLES
    cL,     \* the host lua_State: stack, heap, call frames, type metatables
    last,   \* the record of the last visitor operation and what it returned
    nops    \* how many operations have run

vars == <<cL, last, nops>>

----------------------------------------------------------------------------
(* Bounds of the model. *)

MaxOps == 2
MaxAnchorOps == 3
MaxPathLen == 2
MaxEntries == 1
MaxChain == 3
MaxBuckets == 3
MaxSteps == 3
MaxWatchOps == 4

----------------------------------------------------------------------------
(* Lua type codes (lua.h), as the visitor compares them. *)

LUA_TNONE == -1
LUA_TNIL == 0
LUA_TBOOLEAN == 1
LUA_TLIGHTUSERDATA == 2
LUA_TNUMBER == 3
LUA_TSTRING == 4
LUA_TTABLE == 5
LUA_TFUNCTION == 6
LUA_TUSERDATA == 7
LUA_TTHREAD == 8

(* Indices of the registry's predefined values (lua.h). *)
LUA_RIDX_GLOBALS == 2

(* The heap index of the registry table. *)
LUA_REGISTRYINDEX == 1

----------------------------------------------------------------------------
(* Host values.  A value is a record whose field t is its Lua type; t is
   the first field named in this module, so two values of different types
   are told apart by their types before their payloads are compared. *)

Nil == [t |-> LUA_TNIL, fl |-> 0, v |-> 0]
BoolV(b) == [t |-> LUA_TBOOLEAN, fl |-> 0, v |-> IF b THEN 1 ELSE 0]
IntV(i) == [t |-> LUA_TNUMBER, fl |-> 0, v |-> i]
FloatV(x) == [t |-> LUA_TNUMBER, fl |-> 1, v |-> x]
StrV(s) == [t |-> LUA_TSTRING, fl |-> 0, v |-> s]
LudV(a) == [t |-> LUA_TLIGHTUSERDATA, fl |-> 0, v |-> a]
ObjV(t, id) == [t |-> t, fl |-> 0, v |-> id]

IsPrimitive(x) ==
    x.t \in {LUA_TNIL, LUA_TBOOLEAN, LUA_TNUMBER, LUA_TSTRING, LUA_TLIGHTUSERDATA}

(* Heap objects: one record shape for tables, functions, userdata, threads. *)
NoObj ==
    [kind |-> "free", arr |-> <<>>, node |-> <<>>, meta |-> Nil,
     upv |-> <<>>, body |-> "", buf |-> <<>>, uv |-> <<>>, status |-> "",
     hasframe |-> FALSE, top |-> 0, zero |-> [k |-> Nil, v |-> Nil]]

TableObj(arr, node, meta) ==
    [NoObj EXCEPT !.kind = "table", !.arr = arr, !.node = node, !.meta = meta]

FunctionObj(upv, body) ==
    [NoObj EXCEPT !.kind = "function", !.upv = upv, !.body = body]

UserdataObj(buf, uv, meta) ==
    [NoObj EXCEPT !.kind = "userdata", !.buf = buf, !.uv = uv, !.meta = meta]

ThreadObj(status, hasframe, top) ==
    [NoObj EXCEPT !.kind = "thread", !.status = status, !.hasframe = hasframe,
                  !.top = top]

Bucket(k, v) == [k |-> k, v |-> v]

----------------------------------------------------------------------------
(* The host stack.  h.under counts the slots the stack top has been moved  *)
(* below the base of the visitor's view of the stack (a pop of a value     *)
(* that was never pushed); the stack depth lua_gettop reports is           *)
(* Len(h.stack) - h.under.  h.peak is the greatest depth the stack has had *)
(* since it was last marked, and -1 while the depth is not being followed. *)
(* h.above is the value in the slot just above the stack top when a call   *)
(* of the visitor begins.                                                  *)

(* Only(S) is the element of the singleton S.  An operator binds the host  *)
(* it is given as Only({ ... : h \in {h_} }), which evaluates h_ once.     *)
Only(S) == CHOOSE x \in S : TRUE

lua_gettop(h_) ==
  Only({
    Len(h.stack) - h.under
  : h \in {h_} })

(* The host h with the depth d noted in h.peak. *)
Reached(h_, d) ==
  Only({
    IF h.peak < 0 \/ d <= h.peak THEN h ELSE [h EXCEPT !.peak = d]
  : h \in {h_} })

lua_settop(h_, d) ==
  Only({
    IF d < 0
    THEN [h EXCEPT !.stack = <<>>, !.under = 0 - d]
    ELSE Reached([h EXCEPT !.under = 0,
                           !.stack = [i \in 1..d |->
                                         IF i <= Len(h.stack) THEN h.stack[i] ELSE Nil]],
                 d)
  : h \in {h_} })

lua_pop(h_, n) ==
  Only({
    lua_settop(h, lua_gettop(h) - n)
  : h \in {h_} })

Push(h_, x) ==
  Only({
    IF h.under > 0
    THEN [h EXCEPT !.under = @ - 1]
    ELSE Reached([h EXCEPT !.stack = Append(@, x)], Len(h.stack) + 1)
  : h \in {h_} })

(* The host h with its depth followed from here on, and how far above the  *)
(* depth of h0 the stack of h has been since.                              *)
Marked(h_) ==
  Only({
    [h EXCEPT !.peak = lua_gettop(h)]
  : h \in {h_} })

Rise(h, h0) == h.peak - lua_gettop(h0)

AbsIndex(h_, idx) ==
  Only({
    IF idx < 0 THEN Len(h.stack) + idx + 1 ELSE idx
  : h \in {h_} })

Slot(h_, idx) ==
  Only({
    IF AbsIndex(h, idx) \in 1..Len(h.stack) THEN h.stack[AbsIndex(h, idx)] ELSE Nil
  : h \in {h_} })

lua_type(h_, idx) ==
  Only({
    Slot(h, idx).t
  : h \in {h_} })

lua_pushvalue(h_, idx) ==
  Only({
    Push(h, Slot(h, idx))
  : h \in {h_} })

(* lua_replace(L, -2) and lua_remove(L, -2): the top value takes the place *)
(* of the one below it.                                                    *)
lua_replace(h_) ==
  Only({
    IF Len(h.stack) >= 2
    THEN [h EXCEPT !.stack = Append(SubSeq(@, 1, Len(@) - 2), @[Len(@)])]
    ELSE lua_pop(h, 1)
  : h \in {h_} })

(* lua_insert(L, -2): swap the two top values. *)
lua_insert(h_) ==
  Only({
    IF Len(h.stack) >= 2
    THEN [h EXCEPT !.stack = SubSeq(@, 1, Len(@) - 2) \o <<@[Len(@)], @[Len(@) - 1]>>]
    ELSE h
  : h \in {h_} })

----------------------------------------------------------------------------
(* Raw table access.  A table has an array part arr (keys 1..Len(arr)) and *)
(* a hash part node, a sequence of buckets [k, v]; a bucket whose value is *)
(* nil is empty.  In the host versions that have one, the zero slot holds  *)
(* the value of the key 0 outside both parts (zero.v is nil when the table *)
(* has none).                                                              *)

InArray(tb, key) ==
    key.t = LUA_TNUMBER /\ key.fl = 0 /\ key.v \in 1..Len(tb.arr)

BucketsOf(tb, key) == {i \in 1..Len(tb.node) : tb.node[i].k = key}

EmptyBuckets(tb) == {i \in 1..Len(tb.node) : tb.node[i].v = Nil}

MinOf(S) == CHOOSE x \in S : \A y \in S : x <= y

InZero(tb, key) ==
    key.t = LUA_TNUMBER /\ key.fl = 0 /\ key.v = 0 /\ tb.zero.v # Nil

RawGet(tb, key) ==
    IF InArray(tb, key) THEN tb.arr[key.v]
    ELSE IF InZero(tb, key) THEN tb.zero.v
    ELSE IF BucketsOf(tb, key) # {} THEN tb.node[MinOf(BucketsOf(tb, key))].v
    ELSE Nil

RawSet(tb, key, val) ==
    IF InArray(tb, key) THEN [tb EXCEPT !.arr[key.v] = val]
    ELSE IF InZero(tb, key) THEN [tb EXCEPT !.zero.v = val]
    ELSE IF BucketsOf(tb, key) # {}
    THEN [tb EXCEPT !.node[MinOf(BucketsOf(tb, key))].v = val]
    ELSE IF val = Nil THEN tb
    ELSE IF EmptyBuckets(tb) # {}
    THEN [tb EXCEPT !.node[MinOf(EmptyBuckets(tb))] = Bucket(key, val)]
    ELSE [tb EXCEPT !.node = Append(@, Bucket(key, val))]

IsObj(h_, x, kind) ==
  Only({
    x.t \in {LUA_TTABLE, LUA_TFUNCTION, LUA_TUSERDATA, LUA_TTHREAD}
    /\ x.v \in 1..Len(h.heap) /\ h.heap[x.v].kind = kind
  : h \in {h_} })

(* lua_rawget that creates the table an absent key is read for. *)
lua_rawget_create(h_) ==
  Only({
    LET t == Slot(h, -2)
        k == Slot(h, -1)
        fresh == ObjV(LUA_TTABLE, Len(h.heap) + 1)
    IN  IF IsObj(h, t, "table") /\ RawGet(h.heap[t.v], k) = Nil
        THEN Push([lua_pop(h, 1) EXCEPT
                      !.heap = Append([@ EXCEPT ![t.v] = RawSet(@, k, fresh)],
                                      TableObj(<<>>, <<>>, Nil))],
                  fresh)
        ELSE Push(lua_pop(h, 1),
                  IF IsObj(h, t, "table") THEN RawGet(h.heap[t.v], k) ELSE Nil)
  : h \in {h_} })

(* lua_rawget that pushes table[key] above the key. *)
lua_rawget_keepkey(h_) ==
  Only({
    LET t == Slot(h, -2)
        k == Slot(h, -1)
    IN  Push(h, IF IsObj(h, t, "table") THEN RawGet(h.heap[t.v], k) ELSE Nil)
  : h \in {h_} })

(* lua_rawget(L, -2): the key on top is replaced by table[key]. *)
lua_rawget(h_) ==
  Only({
    LET t == Slot(h, -2)
        k == Slot(h, -1)
    IN  Push(lua_pop(h, 1), IF IsObj(h, t, "table") THEN RawGet(h.heap[t.v], k) ELSE Nil)
  : h \in {h_} })

(* lua_rawset(L, -3): table[key] = value, key and value popped.  When the  *)
(* value at -3 is not a table the behaviour is undefined (the API reads it *)
(* as a table without a check): h.ub marks a host in which this has        *)
(* happened and of which nothing further is known.                         *)
lua_rawset(h_) ==
  Only({
    LET t == Slot(h, -3)
        k == Slot(h, -2)
        x == Slot(h, -1)
        h1 == lua_pop(h, 2)
    IN  IF IsObj(h, t, "table")
        THEN [h1 EXCEPT !.heap[t.v] = RawSet(@, k, x)]
        ELSE [h1 EXCEPT !.ub = TRUE]
  : h \in {h_} })

(* lua_rawgeti(L, LUA_REGISTRYINDEX, n) and lua_getfield / lua_setfield on *)
(* the registry, which has no metatable.                                   *)
Registry(h_) ==
  Only({
    h.heap[LUA_REGISTRYINDEX]
  : h \in {h_} })

rawgeti(h_, n) ==
  Only({
    Push(h, RawGet(Registry(h), IntV(n)))
  : h \in {h_} })

getfield(h_, name) ==
  Only({
    Push(h, RawGet(Registry(h), StrV(name)))
  : h \in {h_} })

lua_setfield(h_, name) ==
  Only({
    [lua_pop(h, 1) EXCEPT !.heap[LUA_REGISTRYINDEX] = RawSet(@, StrV(name), Slot(h, -1))]
  : h \in {h_} })

lua_newtable(h_) ==
  Only({
    Push([h EXCEPT !.heap = Append(@, TableObj(<<>>, <<>>, Nil))],
         ObjV(LUA_TTABLE, Len(h.heap) + 1))
  : h \in {h_} })

----------------------------------------------------------------------------
(* Call frames, locals, upvalues, metatables, user values. *)

lua_getstack(h_, frame) ==
  Only({
    frame >= 0 /\ frame < Len(h.frames)
  : h \in {h_} })

LocalExists(h_, frame, n) ==
  Only({
    \/ n > 0 /\ n <= Len(h.frames[frame + 1].locals)
    \/ n < 0 /\ 0 - n <= Len(h.frames[frame + 1].varargs)
  : h \in {h_} })

(* lua_getlocal: pushes the local and returns its name, or returns NULL    *)
(* and pushes nothing.                                                     *)
lua_getlocal(h_, frame, n) ==
  Only({
    IF ~LocalExists(h, frame, n) THEN [h |-> h, name |-> FALSE]
    ELSE [h |-> Push(h, IF n > 0 THEN h.frames[frame + 1].locals[n]
                                 ELSE h.frames[frame + 1].varargs[0 - n]),
          name |-> TRUE]
  : h \in {h_} })

(* lua_setlocal: pops the value into the local when the local exists. *)
lua_setlocal(h_, frame, n) ==
  Only({
    IF ~LocalExists(h, frame, n) THEN [h |-> h, name |-> FALSE]
    ELSE [h |-> IF n > 0
                THEN [lua_pop(h, 1) EXCEPT !.frames[frame + 1].locals[n] = Slot(h, -1)]
                ELSE [lua_pop(h, 1) EXCEPT !.frames[frame + 1].varargs[0 - n] = Slot(h, -1)],
          name |-> TRUE]
  : h \in {h_} })

(* lua_getinfo(L, "f", ar): pushes the function of the frame. *)
lua_getinfo_f(h_, frame) ==
  Only({
    Push(h, h.frames[frame + 1].func)
  : h \in {h_} })

(* lua_getupvalue(L, -1, n) *)
lua_getupvalue(h_, n) ==
  Only({
    LET f == Slot(h, -1) IN
    IF IsObj(h, f, "function") /\ n \in 1..Len(h.heap[f.v].upv)
    THEN [h |-> Push(h, h.heap[f.v].upv[n]), name |-> TRUE]
    ELSE [h |-> h, name |-> FALSE]
  : h \in {h_} })

(* lua_setupvalue(L, -2, n): pops the value when the upvalue exists. *)
lua_setupvalue(h_, n) ==
  Only({
    LET f == Slot(h, -2) IN
    IF IsObj(h, f, "function") /\ n \in 1..Len(h.heap[f.v].upv)
    THEN [h |-> [lua_pop(h, 1) EXCEPT !.heap[f.v].upv[n] = Slot(h, -1)], name |-> TRUE]
    ELSE [h |-> h, name |-> FALSE]
  : h \in {h_} })

MetatableOf(h_, x) ==
  Only({
    IF IsObj(h, x, "table") \/ IsObj(h, x, "userdata") THEN h.heap[x.v].meta
    ELSE h.tmeta[x.t]
  : h \in {h_} })

(* lua_getmetatable(L, -1): pushes the metatable and returns 1, or pushes  *)
(* nothing and returns 0.                                                  *)
lua_getmetatable(h_) ==
  Only({
    LET m == MetatableOf(h, Slot(h, -1)) IN
    IF m = Nil THEN [h |-> h, ok |-> FALSE] ELSE [h |-> Push(h, m), ok |-> TRUE]
  : h \in {h_} })

(* lua_setmetatable that pops the value without storing it. *)
lua_setmetatable_drop(h_) ==
  Only({
    lua_pop(h, 1)
  : h \in {h_} })

(* lua_setmetatable(L, -2): pops a table or nil and makes it the metatable *)
(* of the value below it (of its whole type when that is not an object).   *)
lua_setmetatable(h_) ==
  Only({
    LET x == Slot(h, -2)
        m == Slot(h, -1)
        h1 == lua_pop(h, 1)
    IN  IF IsObj(h, x, "table") \/ IsObj(h, x, "userdata")
        THEN [h1 EXCEPT !.heap[x.v].meta = m]
        ELSE [h1 EXCEPT !.tmeta[x.t] = m]
  : h \in {h_} })

(* lua_getiuservalue(L, -1, n): pushes the n-th user value and returns its *)
(* type; when the userdata has no such slot, pushes nil and returns        *)
(* LUA_TNONE.                                                              *)
lua_getiuservalue(h_, n) ==
  Only({
    LET u == Slot(h, -1) IN
    IF IsObj(h, u, "userdata") /\ n \in 1..Len(h.heap[u.v].uv)
    THEN [h |-> Push(h, h.heap[u.v].uv[n]), t |-> h.heap[u.v].uv[n].t]
    ELSE [h |-> Push(h, Nil), t |-> LUA_TNONE]
  : h \in {h_} })

(* lua_setiuservalue(L, -2, n): pops the value; stores it when the slot    *)
(* exists.                                                                 *)
lua_setiuservalue(h_, n) ==
  Only({
    LET u == Slot(h, -2) IN
    IF IsObj(h, u, "userdata") /\ n \in 1..Len(h.heap[u.v].uv)
    THEN [lua_pop(h, 1) EXCEPT !.heap[u.v].uv[n] = Slot(h, -1)]
    ELSE lua_pop(h, 1)
  : h \in {h_} })

(* The table introspector (rdebug_table.h): bucket i of the hash part of   *)
(* the table at idx, counted from 0.                                       *)
BucketFull(h_, t, i) ==
  Only({
    IsObj(h, t, "table") /\ i >= 0 /\ i < Len(h.heap[t.v].node)
    /\ h.heap[t.v].node[i + 1].v # Nil
  : h \in {h_} })

get_k(h_, idx, i) ==
  Only({
    IF BucketFull(h, Slot(h, idx), i)
    THEN [h |-> Push(h, h.heap[Slot(h, idx).v].node[i + 1].k), ok |-> TRUE]
    ELSE [h |-> h, ok |-> FALSE]
  : h \in {h_} })

get_v(h_, idx, i) ==
  Only({
    IF BucketFull(h, Slot(h, idx), i)
    THEN [h |-> Push(h, h.heap[Slot(h, idx).v].node[i + 1].v), ok |-> TRUE]
    ELSE [h |-> h, ok |-> FALSE]
  : h \in {h_} })

(* set_v(L, -2, i): pops the value into bucket i when the bucket is in use. *)
set_v(h_, i) ==
  Only({
    IF BucketFull(h, Slot(h, -2), i)
    THEN [h |-> [lua_pop(h, 1) EXCEPT !.heap[Slot(h, -2).v].node[i + 1].v = Slot(h, -1)],
          ok |-> TRUE]
    ELSE [h |-> h, ok |-> FALSE]
  : h \in {h_} })

hash_size(h_, t) ==
  Only({
    IF IsObj(h, t, "table") THEN Len(h.heap[t.v].node) ELSE 0
  : h \in {h_} })

array_size(h_, t) ==
  Only({
    IF IsObj(h, t, "table") THEN Len(h.heap[t.v].arr) ELSE 0
  : h \in {h_} })

has_zero(h_, t) ==
  Only({
    IsObj(h, t, "table") /\ h.heap[t.v].zero.v # Nil
  : h \in {h_} })

(* get_zero(cL, t): pushes the key, then the value, of the zero slot of    *)
(* the table on the stack top.                                             *)
get_zero(h_) ==
  Only({
    IF has_zero(h, Slot(h, -1))
    THEN [h |-> Push(Push(h, h.heap[Slot(h, -1).v].zero.k), h.heap[Slot(h, -1).v].zero.v),
          ok |-> TRUE]
    ELSE [h |-> h, ok |-> FALSE]
  : h \in {h_} })

----------------------------------------------------------------------------
(* ValuePath steps: struct value.  index is the C union's int, (frame, n)  *)
(* its local pair; str holds the key bytes that follow an INDEX_STR step.  *)

Step(type, index) == [type |-> type, index |-> index, frame |-> 0, n |-> 0, str |-> ""]

FrameLocal(frame, n) ==
    [type |-> "FRAME_LOCAL", index |-> 0, frame |-> frame, n |-> n, str |-> ""]

IndexStr(s) ==
    [type |-> "INDEX_STR", index |-> Len(s), frame |-> 0, n |-> 0, str |-> s]

(* The dummy receiver a METATABLE step of a primitive base type pushes. *)
DummyOf(t) ==
    CASE t = LUA_TNIL -> Nil
      [] t = LUA_TBOOLEAN -> BoolV(FALSE)
      [] t = LUA_TNUMBER -> IntV(0)
      [] t = LUA_TSTRING -> StrV("")
      [] OTHER -> LudV(0)

HasDummy(t) ==
    t \in {LUA_TNIL, LUA_TBOOLEAN, LUA_TNUMBER, LUA_TSTRING, LUA_TLIGHTUSERDATA}

(* eval_value_(cL, v): [h |-> the host afterwards, t |-> the type returned] *)
RECURSIVE eval_value_(_, _)
eval_value_(h_, p) ==
  Only({
    LET v == p[1]
        none(hh) == [h |-> hh, t |-> LUA_TNONE]
        top(hh) == [h |-> hh, t |-> lua_type(hh, -1)]
    IN
    CASE v.type = "FRAME_LOCAL" ->
            IF ~lua_getstack(h, v.frame) THEN none(h)
            ELSE Only({ IF g.name THEN top(g.h) ELSE none(g.h)
                        : g \in {lua_getlocal(h, v.frame, v.n)} })
      [] v.type = "FRAME_FUNC" ->
            IF ~lua_getstack(h, v.index) THEN none(h)
            ELSE [h |-> lua_getinfo_f(h, v.index), t |-> LUA_TFUNCTION]
      [] v.type \in {"INDEX_INT", "INDEX_STR"} ->
            Only({ IF e.t = LUA_TNONE THEN none(e.h)
                   ELSE IF e.t # LUA_TTABLE THEN none(lua_pop(e.h, 1))
                   ELSE top(lua_replace(lua_rawget(
                            Push(e.h, IF v.type = "INDEX_INT" THEN IntV(v.index)
                                                              ELSE StrV(v.str)))))
                   : e \in {eval_value_(h, Tail(p))} })
      [] v.type \in {"INDEX_KEY", "INDEX_VAL"} ->
            Only({ IF e.t = LUA_TNONE THEN none(e.h)
                   ELSE IF e.t # LUA_TTABLE THEN none(lua_pop(e.h, 1))
                   ELSE Only({ IF ~g.ok THEN none(lua_pop(g.h, 1))
                               ELSE top(lua_replace(g.h))
                               : g \in {IF v.type = "INDEX_KEY"
                                        THEN get_k(e.h, -1, v.index)
                                        ELSE get_v(e.h, -1, v.index)} })
                   : e \in {eval_value_(h, Tail(p))} })
      [] v.type = "UPVALUE" ->
            Only({ IF e.t = LUA_TNONE THEN none(e.h)
                   ELSE IF e.t # LUA_TFUNCTION THEN none(lua_pop(e.h, 1))
                   ELSE Only({ IF g.name THEN top(lua_replace(g.h))
                               ELSE none(lua_pop(g.h, 1))
                               : g \in {lua_getupvalue(e.h, v.index)} })
                   : e \in {eval_value_(h, Tail(p))} })
      [] v.type = "GLOBAL" -> top(rawgeti(h, LUA_RIDX_GLOBALS))
      [] v.type = "REGISTRY" ->
            [h |-> Push(h, ObjV(LUA_TTABLE, LUA_REGISTRYINDEX)), t |-> LUA_TTABLE]
      [] v.type = "METATABLE" ->
            Only({ IF ~e.go THEN none(e.h)
                   ELSE Only({ IF g.ok THEN [h |-> lua_replace(g.h), t |-> LUA_TTABLE]
                               ELSE [h |-> Push(lua_pop(g.h, 1), Nil), t |-> LUA_TNIL]
                               : g \in {lua_getmetatable(e.h)} })
                   : e \in {IF v.index # LUA_TTABLE /\ v.index # LUA_TUSERDATA
                            THEN IF HasDummy(v.index)
                                 THEN [h |-> Push(h, DummyOf(v.index)), t |-> v.index,
                                       go |-> TRUE]
                                 ELSE [h |-> h, t |-> LUA_TNONE, go |-> FALSE]
                            ELSE Only({
                                 IF i.t = LUA_TNONE
                                 THEN [h |-> i.h, t |-> LUA_TNONE, go |-> FALSE]
                                 ELSE IF i.t # LUA_TTABLE /\ i.t # LUA_TUSERDATA
                                 THEN [h |-> lua_pop(i.h, 1), t |-> LUA_TNONE, go |-> FALSE]
                                 ELSE [h |-> i.h, t |-> i.t, go |-> TRUE]
                                 : i \in {eval_value_(h, Tail(p))} })} })
      [] v.type = "USERVALUE" ->
            Only({ IF e.t = LUA_TNONE THEN none(e.h)
                   ELSE IF e.t # LUA_TUSERDATA THEN none(lua_pop(e.h, 1))
                   ELSE Only({ [h |-> lua_replace(g.h), t |-> g.t]
                               : g \in {lua_getiuservalue(e.h, v.index)} })
                   : e \in {eval_value_(h, Tail(p))} })
      [] v.type = "STACK" -> top(lua_pushvalue(h, v.index))
      [] OTHER -> none(h)
  : h \in {h_} })

(* assign_value giving up without trimming the host stack. *)
assign_refused_keep(h_, top) ==
  Only({
    [h |-> h, r |-> 0]
  : h \in {h_} })

(* The end of assign_value, reached by every break: the host stack is      *)
(* trimmed to one below the depth at entry and 0 returned.                 *)
assign_refused(h_, top) ==
  Only({
    [h |-> lua_settop(h, top - 1), r |-> 0]
  : h \in {h_} })

(* assign_value(v, cL): [h |-> the host afterwards, r |-> 1 or 0] *)
assign_value(p, h_) ==
  Only({
    LET v == p[1]
        top == lua_gettop(h)
        failed(hh) == assign_refused(hh, top)
        done(hh) == [h |-> hh, r |-> 1]
    IN
    CASE v.type = "FRAME_LOCAL" ->
            IF ~lua_getstack(h, v.frame) THEN failed(h)
            ELSE Only({ IF g.name THEN done(g.h) ELSE failed(g.h)
                        : g \in {lua_setlocal(h, v.frame, v.n)} })
      [] v.type \in {"GLOBAL", "REGISTRY", "FRAME_FUNC", "STACK", "INDEX_KEY"} -> failed(h)
      [] v.type \in {"INDEX_INT", "INDEX_STR"} ->
            Only({ IF e.t = LUA_TNONE \/ e.t # LUA_TTABLE THEN failed(e.h)
                   ELSE done(lua_pop(lua_rawset(lua_pushvalue(
                            Push(e.h, IF v.type = "INDEX_INT" THEN IntV(v.index)
                                                              ELSE StrV(v.str)),
                            -3)), 2))
                   : e \in {eval_value_(h, Tail(p))} })
      [] v.type = "INDEX_VAL" ->
            Only({ IF e.t = LUA_TNONE \/ e.t # LUA_TTABLE THEN failed(e.h)
                   ELSE Only({ IF ~g.ok THEN failed(g.h) ELSE done(lua_pop(g.h, 1))
                               : g \in {set_v(lua_insert(e.h), v.index)} })
                   : e \in {eval_value_(h, Tail(p))} })
      [] v.type = "UPVALUE" ->
            Only({ IF e.t = LUA_TNONE \/ e.t # LUA_TFUNCTION THEN failed(e.h)
                   ELSE Only({ IF g.name THEN done(lua_pop(g.h, 1)) ELSE failed(g.h)
                               : g \in {lua_setupvalue(lua_insert(e.h), v.index)} })
                   : e \in {eval_value_(h, Tail(p))} })
      [] v.type = "METATABLE" ->
            IF v.index # LUA_TTABLE /\ v.index # LUA_TUSERDATA /\ ~HasDummy(v.index)
            THEN [h |-> h, r |-> 0]
            ELSE Only({
                 IF (v.index = LUA_TTABLE \/ v.index = LUA_TUSERDATA)
                    /\ e.t # LUA_TTABLE /\ e.t # LUA_TUSERDATA
                 THEN failed(e.h)
                 ELSE Only({ IF lua_type(h1, -1) # LUA_TNIL /\ lua_type(h1, -1) # LUA_TTABLE
                             THEN failed(h1)
                             ELSE done(lua_pop(lua_setmetatable(h1), 1))
                             : h1 \in {lua_insert(e.h)} })
                 : e \in {IF v.index # LUA_TTABLE /\ v.index # LUA_TUSERDATA
                          THEN [h |-> Push(h, DummyOf(v.index)), t |-> v.index]
                          ELSE eval_value_(h, Tail(p))} })
      [] v.type = "USERVALUE" ->
            Only({ IF e.t # LUA_TUSERDATA THEN failed(e.h)
                   ELSE done(lua_pop(lua_setiuservalue(lua_insert(e.h), v.index), 1))
                   : e \in {eval_value_(h, Tail(p))} })
      [] OTHER -> failed(h)
  : h \in {h_} })

----------------------------------------------------------------------------
(* Debugger-side values: a copied primitive, a ValuePath userdata (p is    *)
(* its step list), a debugger-side table (p is its list of items, or, with *)
(* fl = 1, its list of <<key, value>> pairs in the order luadbg_next       *)
(* gives them) or a byte string read from a userdata buffer (p is its      *)
(* bytes).                                                                 *)

DVal(x) == [t |-> x.t, fl |-> x.fl, v |-> x.v, p |-> <<>>]

DPath(p) == [t |-> LUA_TUSERDATA, fl |-> 0, v |-> 0, p |-> p]

DList(items) == [t |-> LUA_TTABLE, fl |-> 0, v |-> 0, p |-> items]

DTable == DList(<<>>)

DMap(pairs) == [t |-> LUA_TTABLE, fl |-> 1, v |-> 0, p |-> pairs]

(* The <<key, value>> pairs of a debugger-side table. *)
Entries(d) ==
    IF d.fl = 1 THEN d.p ELSE [i \in 1..Len(d.p) |-> <<DVal(IntV(i)), d.p[i]>>]

DBytes(b) == [t |-> LUA_TSTRING, fl |-> 0, v |-> "", p |-> b]

HostVal(d) == [t |-> d.t, fl |-> d.fl, v |-> d.v]

(* copy_toR: the type copied from the host stack top, or LUA_TNONE. *)
copy_toR(h_) ==
  Only({
    IF IsPrimitive(Slot(h, -1)) THEN lua_type(h, -1) ELSE LUA_TNONE
  : h \in {h_} })

(* copy_fromR(from, to): [h |-> the host afterwards, t |-> the type] *)
copy_fromR(d, h_) ==
  Only({
    IF IsPrimitive(d) THEN [h |-> Push(h, HostVal(d)), t |-> d.t]
    ELSE IF d.t = LUA_TUSERDATA THEN eval_value_(h, d.p)
    ELSE [h |-> h, t |-> LUA_TNONE]
  : h \in {h_} })

(* luaL_ref and luaL_unref (lauxlib.c): references are integer keys of the *)
(* table, with the list of freed ones threaded through t[freelist].        *)
LUA_REFNIL == -1
LUA_NOREF == -2
freelist == 3

RawLen(tb) ==
    MinOf({n \in 0..(Len(tb.arr) + Len(tb.node)) : RawGet(tb, IntV(n + 1)) = Nil})

luaL_ref(tb, x) ==
    IF x = Nil THEN [tb |-> tb, ref |-> LUA_REFNIL]
    ELSE LET first == RawGet(tb, IntV(freelist)) = Nil
             tb1 == IF first THEN RawSet(tb, IntV(freelist), IntV(0)) ELSE tb
             link == RawGet(tb, IntV(freelist))
             head == IF first \/ link.t # LUA_TNUMBER THEN 0 ELSE link.v
             tb2 == IF head # 0
                    THEN RawSet(tb1, IntV(freelist), RawGet(tb1, IntV(head)))
                    ELSE tb1
             ref == IF head # 0 THEN head ELSE RawLen(tb1) + 1
         IN  [tb |-> RawSet(tb2, IntV(ref), x), ref |-> ref]

(* luaL_unref: the handle is put at the head of the list of free ones,    *)
(* whether or not it holds a value.                                        *)
luaL_unref(tb, ref) ==
    IF ref >= 0
    THEN RawSet(RawSet(tb, IntV(ref), RawGet(tb, IntV(freelist))),
                IntV(freelist), IntV(ref))
    ELSE tb

(* luaL_ref(L, -2): pops the value on top into the table below it. *)
lua_ref(h_) ==
  Only({
    LET t == Slot(h, -2)
        r == luaL_ref(h.heap[t.v], Slot(h, -1))
    IN  [h |-> [lua_pop(h, 1) EXCEPT !.heap[t.v] = r.tb], ref |-> r.ref]
  : h \in {h_} })

get_registry_value(name, ref) ==
    DPath(<<Step("INDEX_INT", ref), IndexStr(name), Step("REGISTRY", 0)>>)

(* AnchorTable that makes a new table also when the registry has one. *)
AnchorTable_renew(h_, name) ==
  Only({
    lua_setfield(lua_pushvalue(lua_newtable(h), -1), name)
  : h \in {h_} })

(* The anchor table `name` of the registry on the stack top, created when  *)
(* the registry has none.                                                  *)
AnchorTable(h_, name) ==
  Only({
    Only({ IF lua_type(h1, -1) = LUA_TNIL
           THEN lua_setfield(lua_pushvalue(lua_newtable(lua_pop(h1, 1)), -1), name)
           ELSE h1
           : h1 \in {getfield(h, name)} })
  : h \in {h_} })

(* ref_value(from, to): [h, ref, d |-> the path pushed to the debugger] *)
ref_value(h_) ==
  Only({
    Only({ [h |-> lua_pop(r.h, 1), ref |-> r.ref,
            d |-> get_registry_value("__debugger_ref", r.ref)]
           : r \in {lua_ref(lua_pushvalue(AnchorTable(h, "__debugger_ref"), -2))} })
  : h \in {h_} })

(* unref_value(from, ref): the host afterwards. *)
unref_value(h_, ref) ==
  Only({
    IF ref >= 0
    THEN Only({ lua_pop(IF lua_type(h1, -1) = LUA_TTABLE
                        THEN [h1 EXCEPT !.heap[Slot(h1, -1).v] = luaL_unref(@, ref)]
                        ELSE h1, 1)
                : h1 \in {getfield(h, "__debugger_ref")} })
    ELSE h
  : h \in {h_} })

TypeName(t) ==
    CASE t = LUA_TTABLE -> "table"
      [] t = LUA_TFUNCTION -> "function"
      [] t = LUA_TUSERDATA -> "userdata"
      [] t = LUA_TTHREAD -> "thread"
      [] OTHER -> "no value"

(* copy_value(from, to, ref): [h, ref, d |-> what the debugger receives];  *)
(* the placeholder string stands for "<typename>: <address>".              *)
copy_value(h_, ref) ==
  Only({
    IF copy_toR(h) # LUA_TNONE THEN [h |-> h, ref |-> LUA_NOREF, d |-> DVal(Slot(h, -1))]
    ELSE IF ref THEN ref_value(h)
    ELSE [h |-> h, ref |-> LUA_NOREF, d |-> DVal(StrV(TypeName(lua_type(h, -1))))]
  : h \in {h_} })

----------------------------------------------------------------------------
(* The visitor operations.  Each returns [h |-> the host afterwards,       *)
(* ret |-> the values returned to the debugger, err |-> the message of the *)
(* error raised, "" when none], with further fields where an operation     *)
(* has more to report.                                                     *)

Ret(h_, ret) ==
  Only({
    [h |-> h, ret |-> ret, err |-> ""]
  : h \in {h_} })

Err(h_, msg) ==
  Only({
    [h |-> h, ret |-> <<>>, err |-> msg]
  : h \in {h_} })

(* table_key(L, cL): [h, ok, t1 |-> the type the table argument gave] *)
table_key(dt, dk, h_) ==
  Only({
    Only({ IF a.t # LUA_TTABLE THEN [h |-> lua_pop(a.h, 1), ok |-> FALSE]
           ELSE Only({ IF b.t = LUA_TNONE THEN [h |-> lua_pop(b.h, 1), ok |-> FALSE]
                       ELSE [h |-> b.h, ok |-> TRUE]
                       : b \in {copy_fromR(dk, a.h)} })
           : a \in {copy_fromR(dt, h)} })
  : h \in {h_} })

INT_MAX == 2147483647

(* new_index / new_field: the step put in front of the table's path. *)
new_index(dt, dk) == DPath(<<Step("INDEX_INT", dk.v)>> \o dt.p)

new_field(dt, dk) == DPath(<<IndexStr(dk.v)>> \o dt.p)

(* combine_index / combine_field: cL holds table, value. *)
combine(dt, dk, h_, getref, isfield) ==
  Only({
    IF ~getref /\ copy_toR(h) # LUA_TNONE
    THEN Ret(lua_pop(h, 2), <<DVal(Slot(h, -1))>>)
    ELSE Ret(lua_pop(h, 2), <<IF isfield THEN new_field(dt, dk) ELSE new_index(dt, dk)>>)
  : h \in {h_} })

(* An integer above INT_MAX, which a luadbg_Integer of 64 bits holds: the  *)
(* number 2^32 + lo, whose conversion to int is lo.                        *)
WideV(lo) == [t |-> LUA_TNUMBER, fl |-> 2, v |-> lo]

(* client_index without the check of the key's range. *)
client_index_unchecked(h_, dt, dk, getref) ==
  Only({
    IF dk.t # LUA_TNUMBER THEN Err(h, "number expected")
    ELSE Only({ IF ~k.ok THEN Ret(k.h, <<>>)
                ELSE IF lua_type(k.h, -2) # LUA_TTABLE
                THEN Err(lua_pop(k.h, 2), "#1 is not a table")
                ELSE combine(dt, dk, lua_rawget(k.h), getref, FALSE)
                : k \in {table_key(dt, dk, h)} })
  : h \in {h_} })

client_index(h_, dt, dk, getref) ==
  Only({
    IF dk.t # LUA_TNUMBER THEN Err(h, "number expected")
    ELSE IF dk.fl = 2 \/ dk.v <= 0 \/ dk.v > INT_MAX THEN Err(h, "must be unsigned int")
    ELSE Only({ IF ~k.ok THEN Ret(k.h, <<>>)
                ELSE IF lua_type(k.h, -2) # LUA_TTABLE
                THEN Err(lua_pop(k.h, 2), "#1 is not a table")
                ELSE combine(dt, dk, lua_rawget(k.h), getref, FALSE)
                : k \in {table_key(dt, dk, h)} })
  : h \in {h_} })

client_field(h_, dt, dk, getref) ==
  Only({
    IF dk.t # LUA_TSTRING THEN Err(h, "string expected")
    ELSE Only({ IF ~k.ok THEN Ret(k.h, <<>>)
                ELSE IF lua_type(k.h, -2) # LUA_TTABLE
                THEN Err(lua_pop(k.h, 2), "#1 is not a table")
                ELSE combine(dt, dk, lua_rawget(k.h), getref, TRUE)
                : k \in {table_key(dt, dk, h)} })
  : h \in {h_} })

lclient_tablesize(h_, dt) ==
  Only({
    Only({ IF a.t # LUA_TTABLE THEN Ret(lua_pop(a.h, 1), <<>>)
           ELSE Ret(lua_pop(a.h, 1),
                    <<DVal(IntV(array_size(a.h, Slot(a.h, -1)))),
                      DVal(IntV(hash_size(a.h, Slot(a.h, -1))
                                + (IF has_zero(a.h, Slot(a.h, -1)) THEN 1 ELSE 0)))>>)
           : a \in {copy_fromR(dt, h)} })
  : h \in {h_} })

(* The loop of lclient_tablekey from bucket i on; cL holds the table.  The *)
(* index is an unsigned int: a negative argument is converted to a number  *)
(* of at least 2^31, which is above every hash size.                       *)
RECURSIVE tablekey_from(_, _, _)
tablekey_from(h_, i, hsize) ==
  Only({
    IF i < 0 \/ i >= hsize THEN Ret(lua_pop(h, 1), <<>>)
    ELSE Only({ IF g.ok /\ lua_type(g.h, -1) = LUA_TSTRING
                THEN Ret(lua_pop(g.h, 2), <<DVal(Slot(g.h, -1)), DVal(IntV(i + 1))>>)
                ELSE tablekey_from(IF g.ok THEN lua_pop(g.h, 1) ELSE g.h, i + 1, hsize)
                : g \in {get_k(h, -1, i)} })
  : h \in {h_} })

lclient_tablekey(h_, dt, idx) ==
  Only({
    Only({ IF a.t # LUA_TTABLE THEN Ret(lua_pop(a.h, 1), <<>>)
           ELSE tablekey_from(a.h, idx, hash_size(a.h, Slot(a.h, -1)))
           : a \in {copy_fromR(dt, h)} })
  : h \in {h_} })

(* get_kv(cL, t, i) of the table introspector: pushes the key, then the    *)
(* value, of bucket i of the table on the stack top.                       *)
get_kv(h_, i) ==
  Only({
    IF BucketFull(h, Slot(h, -1), i)
    THEN [h |-> Push(Push(h, h.heap[Slot(h, -1).v].node[i + 1].k),
                     h.heap[Slot(h, -1).v].node[i + 1].v),
          ok |-> TRUE]
    ELSE [h |-> h, ok |-> FALSE]
  : h \in {h_} })

(* combine_key: the item for the host stack top, which is popped. *)
combine_key(dt, h_, index) ==
  Only({
    [h |-> lua_pop(h, 1),
     d |-> IF copy_toR(h) # LUA_TNONE THEN DVal(Slot(h, -1))
           ELSE DPath(<<Step("INDEX_KEY", index)>> \o dt.p)]
  : h \in {h_} })

(* combine_val: the items pushed for the host stack top, which is popped. *)
combine_val(dt, h_, index, ref) ==
  Only({
    LET path == DPath(<<Step("INDEX_VAL", index)>> \o dt.p)
        copy == IF copy_toR(h) # LUA_TNONE THEN DVal(Slot(h, -1)) ELSE path
    IN  [h |-> lua_pop(h, 1), d |-> IF ref THEN <<path, copy>> ELSE <<copy>>]
  : h \in {h_} })

(* tablehash stopping at the limit: key, value and table are popped and   *)
(* the list filled so far is returned.                                     *)
tablehash_stop(h_, list) ==
  Only({
    Ret(lua_pop(h, 3), <<DList(list)>>)
  : h \in {h_} })

(* One entry of tablehash: cL holds the table, the key and the value; the  *)
(* result is the host with key and value popped and the list with the      *)
(* entry's items stored.  With ref, rawseti stores the item on top (the    *)
(* copy) before the one below it (the path).                               *)
tablehash_entry(h_, dt, i, ref, list) ==
  Only({
    Only({ Only({ [h |-> x.h,
                   list |-> list \o <<k.d>>
                                 \o (IF ref THEN <<x.d[2], x.d[1]>> ELSE x.d)]
                  : x \in {combine_val(dt, k.h, i, ref)} })
           : k \in {combine_key(dt, h, i)} })
  : h \in {h_} })

(* The loop of tablehash from bucket i on, and the zero slot after it; cL  *)
(* holds the table and list is the debugger table filled so far.           *)
RECURSIVE tablehash_from(_, _, _, _, _, _)
tablehash_from(h_, dt, i, maxn, ref, list) ==
  Only({
    IF i >= hash_size(h, Slot(h, -1))
    THEN Only({
         IF ~z.ok THEN Ret(lua_pop(h, 1), <<DList(list)>>)
         ELSE IF maxn - 1 < 0 THEN tablehash_stop(z.h, list)
         ELSE Only({ Ret(lua_pop(e.h, 1), <<DList(e.list)>>)
                     : e \in {tablehash_entry(z.h, dt, i, ref, list)} })
         : z \in {get_zero(h)} })
    ELSE Only({
         IF ~g.ok THEN tablehash_from(h, dt, i + 1, maxn, ref, list)
         ELSE IF maxn - 1 < 0 THEN tablehash_stop(g.h, list)
         ELSE Only({ tablehash_from(e.h, dt, i + 1, maxn - 1, ref, e.list)
                     : e \in {tablehash_entry(g.h, dt, i, ref, list)} })
         : g \in {get_kv(h, i)} })
  : h \in {h_} })

tablehash(h_, dt, maxn, ref) ==
  Only({
    Only({ IF a.t # LUA_TTABLE THEN Ret(lua_pop(a.h, 1), <<>>)
           ELSE tablehash_from(a.h, dt, 0, maxn, ref, <<>>)
           : a \in {copy_fromR(dt, h)} })
  : h \in {h_} })

(* get_uservalue / client_getuservalue *)
client_getuservalue(h_, d, index, getref) ==
  Only({
    LET path == DPath(<<Step("USERVALUE", index)>> \o d.p) IN
    Only({
    IF a.t = LUA_TNONE THEN Ret(a.h, <<>>)
    ELSE IF a.t # LUA_TUSERDATA THEN Ret(lua_pop(a.h, 1), <<>>)
    ELSE IF getref THEN Ret(lua_pop(a.h, 1), <<path, DVal(BoolV(TRUE))>>)
    ELSE Only({ IF g.t = LUA_TNONE THEN Ret(lua_pop(g.h, 1), <<>>)
                ELSE IF copy_toR(g.h) # LUA_TNONE
                THEN Ret(lua_pop(g.h, 2), <<DVal(Slot(g.h, -1)), DVal(BoolV(TRUE))>>)
                ELSE Ret(lua_pop(g.h, 1), <<path, DVal(BoolV(TRUE))>>)
                : g \in {lua_getiuservalue(a.h, index)} })
    : a \in {copy_fromR(d, h)} })
  : h \in {h_} })

(* get_metatable / client_getmetatable: the path returned has the         *)
(* METATABLE step in front of the argument's path when the argument is a   *)
(* table or userdata, and is the METATABLE step of the type alone when it  *)
(* is not.                                                                 *)
get_metatable(h_, d, getref) ==
  Only({
    Only({
    IF a.t = LUA_TNONE THEN Ret(a.h, <<>>)
    ELSE Only({
         IF ~getref /\ ~g.ok THEN Ret(lua_pop(g.h, 1), <<>>)
         ELSE Ret(IF getref THEN lua_pop(a.h, 1) ELSE lua_pop(g.h, 2),
                  <<IF a.t = LUA_TTABLE \/ a.t = LUA_TUSERDATA
                    THEN DPath(<<Step("METATABLE", a.t)>> \o d.p)
                    ELSE DPath(<<Step("METATABLE", a.t)>>)>>)
         : g \in {lua_getmetatable(a.h)} })
    : a \in {copy_fromR(d, h)} })
  : h \in {h_} })

lclient_value(h_, d) ==
  Only({
    Only({ IF a.t = LUA_TNONE THEN Ret(a.h, <<DVal(Nil)>>)
           ELSE Ret(lua_pop(a.h, 1), <<copy_value(a.h, FALSE).d>>)
           : a \in {copy_fromR(d, h)} })
  : h \in {h_} })

(* lclient_assign without the lua_pushnil of line 1086. *)
lclient_assign_nopush(h_, d1, d2) ==
  Only({
    Only({
    IF a.t = LUA_TNONE /\ d2.t # LUA_TUSERDATA
    THEN [h |-> a.h, ret |-> <<>>, err |-> "Invalid value type", r |-> -1]
    ELSE IF d1.t # LUA_TUSERDATA
    THEN [h |-> a.h, ret |-> <<>>, err |-> "userdata expected", r |-> -1]
    ELSE Only({ [h |-> g.h, ret |-> <<DVal(BoolV(g.r = 1))>>, err |-> "", r |-> g.r]
                : g \in {assign_value(d1.p, a.h)} })
    : a \in {copy_fromR(d2, h)} })
  : h \in {h_} })

(* lclient_assign: r is what assign_value returned, atop the host stack    *)
(* depth it was entered with (-1 when it was not reached).                 *)
lclient_assign(h_, d1, d2) ==
  Only({
    Only({
    IF a.t = LUA_TNONE /\ d2.t # LUA_TUSERDATA
    THEN [h |-> a.h, ret |-> <<>>, err |-> "Invalid value type", r |-> -1]
    ELSE Only({
         IF d1.t # LUA_TUSERDATA
         THEN [h |-> h1, ret |-> <<>>, err |-> "userdata expected", r |-> -1]
         ELSE Only({ [h |-> g.h, ret |-> <<DVal(BoolV(g.r = 1))>>, err |-> "", r |-> g.r]
                     : g \in {assign_value(d1.p, h1)} })
         : h1 \in {IF a.t = LUA_TNONE THEN Push(a.h, Nil) ELSE a.h} })
    : a \in {copy_fromR(d2, h)} })
  : h \in {h_} })

(* lclient_getinfo: options is the sequence of option letters. *)
OptionLetters == {"S", "l", "n", "f", "u", "t", "r"}

lclient_getinfo(h_, d1, options) ==
  Only({
    LET hasf == \E i \in 1..Len(options) : options[i] = "f" IN
    IF Len(options) > 7 THEN Err(h, "invalid option")
    ELSE IF \E i \in 1..Len(options) : options[i] \notin OptionLetters
    THEN Err(h, "invalid option")
    ELSE IF d1.t = LUA_TNUMBER
    THEN IF ~lua_getstack(h, d1.v) THEN Ret(h, <<>>)
         ELSE Ret(IF hasf THEN lua_pop(lua_getinfo_f(h, d1.v), 1) ELSE h, <<DTable>>)
    ELSE IF d1.t = LUA_TUSERDATA
    THEN Only({
         IF a.t # LUA_TFUNCTION
         THEN Err(IF a.t # LUA_TNONE THEN lua_pop(a.h, 1) ELSE a.h, "Need a function ref")
         ELSE IF hasf THEN Err(a.h, "invalid option")
         ELSE Ret(lua_pop(a.h, 1), <<DTable>>)
         : a \in {copy_fromR(d1, h)} })
    ELSE Err(h, "Need stack level (integer) or function ref")
  : h \in {h_} })

(* lclient_udread / lclient_udwrite: the userdata's buffer is buf. *)
lclient_udread(h_, d, offset, count) ==
  Only({
    Only({
    IF a.t = LUA_TNONE THEN Err(a.h, "Need userdata")
    ELSE IF lua_type(a.h, -1) # LUA_TUSERDATA THEN Err(lua_pop(a.h, 1), "Need userdata")
    ELSE LET memory == a.h.heap[Slot(a.h, -1).v].buf
             len == Len(memory)
             n == IF offset + count > len THEN len - offset ELSE count
         IN  IF offset < 0 \/ offset >= len \/ count <= 0 THEN Ret(lua_pop(a.h, 1), <<>>)
             ELSE Ret(lua_pop(a.h, 1), <<DBytes(SubSeq(memory, offset + 1, offset + n))>>)
    : a \in {copy_fromR(d, h)} })
  : h \in {h_} })

(* memcpy(memory + offset, data, n) *)
memcpy(memory, offset, data, n) ==
    [i \in 1..Len(memory) |->
        IF i > offset /\ i <= offset + n THEN data[i - offset] ELSE memory[i]]

(* lclient_udwrite without the std::min of line 1039. *)
lclient_udwrite_noclamp(h_, d, offset, data, allowPartial) ==
  Only({
    Only({
    IF a.t = LUA_TNONE THEN Err(a.h, "Need userdata")
    ELSE IF lua_type(a.h, -1) # LUA_TUSERDATA THEN Err(lua_pop(a.h, 1), "Need userdata")
    ELSE LET u == Slot(a.h, -1).v
             memory == a.h.heap[u].buf
             len == Len(memory)
             count == Len(data)
             bytesWritten == count
         IN  IF allowPartial
             THEN IF offset < 0 \/ offset >= len
                  THEN Ret(lua_pop(a.h, 1), <<DVal(IntV(0))>>)
                  ELSE Ret([lua_pop(a.h, 1) EXCEPT
                               !.heap[u].buf = memcpy(memory, offset, data, bytesWritten)],
                           <<DVal(IntV(bytesWritten))>>)
             ELSE IF offset < 0 \/ offset + count > len
                  THEN Ret(lua_pop(a.h, 1), <<>>)
                  ELSE Ret([lua_pop(a.h, 1) EXCEPT
                               !.heap[u].buf = memcpy(memory, offset, data, count)],
                           <<DVal(BoolV(TRUE))>>)
    : a \in {copy_fromR(d, h)} })
  : h \in {h_} })

lclient_udwrite(h_, d, offset, data, allowPartial) ==
  Only({
    Only({
    IF a.t = LUA_TNONE THEN Err(a.h, "Need userdata")
    ELSE IF lua_type(a.h, -1) # LUA_TUSERDATA THEN Err(lua_pop(a.h, 1), "Need userdata")
    ELSE LET u == Slot(a.h, -1).v
             memory == a.h.heap[u].buf
             len == Len(memory)
             count == Len(data)
             bytesWritten == IF count < len - offset THEN count ELSE len - offset
         IN  IF allowPartial
             THEN IF offset < 0 \/ offset >= len
                  THEN Ret(lua_pop(a.h, 1), <<DVal(IntV(0))>>)
                  ELSE Ret([lua_pop(a.h, 1) EXCEPT
                               !.heap[u].buf = memcpy(memory, offset, data, bytesWritten)],
                           <<DVal(IntV(bytesWritten))>>)
             ELSE IF offset < 0 \/ offset + count > len
                  THEN Ret(lua_pop(a.h, 1), <<>>)
                  ELSE Ret([lua_pop(a.h, 1) EXCEPT
                               !.heap[u].buf = memcpy(memory, offset, data, count)],
                           <<DVal(BoolV(TRUE))>>)
    : a \in {copy_fromR(d, h)} })
  : h \in {h_} })

----------------------------------------------------------------------------
(* Loading and calling host functions.  A function's body names what it    *)
(* does when called: the values it returns, or the error it throws.        *)

LUA_MULTRET == -1

Compiles(source) == source # "("

Throws(body) == body = "error('x')"

Results(body) ==
    CASE body = "return 1" -> <<"one">>
      [] body = "return {}" -> <<"table">>
      [] body = "return 1, {}" -> <<"one", "table">>
      [] body = "return nil" -> <<"nil">>
      [] OTHER -> <<>>

RECURSIVE PushResults(_, _, _)
PushResults(h_, rs, i) ==
  Only({
    IF i > Len(rs) THEN h
    ELSE PushResults(CASE rs[i] = "one" -> Push(h, IntV(1))
                       [] rs[i] = "table" -> lua_newtable(h)
                       [] OTHER -> Push(h, Nil),
                     rs, i + 1)
  : h \in {h_} })

(* luaL_loadbuffer: pushes the compiled function and returns 0, or pushes  *)
(* the error message and returns nonzero.                                  *)
luaL_loadbuffer(h_, source) ==
  Only({
    IF Compiles(source)
    THEN [h |-> Push([h EXCEPT !.heap = Append(@, FunctionObj(
                          <<RawGet(Registry(h), IntV(LUA_RIDX_GLOBALS))>>, source))],
                     ObjV(LUA_TFUNCTION, Len(h.heap) + 1)),
          status |-> 0]
    ELSE [h |-> Push(h, StrV("syntax error")), status |-> 1]
  : h \in {h_} })

(* debug_pcall(L, nargs, nresults, 0): the function and its arguments are  *)
(* replaced by the results, or by the error message.  With nargs = -1 the  *)
(* slot taken for the function is the one above the stack top: the         *)
(* behaviour is undefined, and what happens is what a call of the value in *)
(* that slot, h.above, does.                                               *)
RECURSIVE debug_pcall(_, _, _)
debug_pcall(h_, nargs, nresults) ==
  Only({
    IF nargs < 0
    THEN Only({ [h |-> [r.h EXCEPT !.ub = TRUE], status |-> r.status]
                : r \in {debug_pcall(Push(h, h.above), 0, nresults)} })
    ELSE
    LET f == Slot(h, 0 - (nargs + 1))
        h1 == lua_pop(h, nargs + 1)
    IN  IF ~IsObj(h, f, "function")
        THEN [h |-> Push(h1, StrV("attempt to call a non-function")), status |-> 1]
        ELSE IF Throws(h.heap[f.v].body)
        THEN [h |-> Push(h1, StrV("x")), status |-> 1]
        ELSE LET rs == Results(h.heap[f.v].body) IN
             [h |-> PushResults(h1,
                        IF nresults = LUA_MULTRET THEN rs
                        ELSE [i \in 1..nresults |-> IF i <= Len(rs) THEN rs[i] ELSE "nil"],
                        1),
              status |-> 0]
  : h \in {h_} })

lclient_load(h_, source) ==
  Only({
    Only({ IF l.status # 0
           THEN Ret(lua_pop(l.h, 2), <<DVal(Nil), DVal(Slot(l.h, -1))>>)
           ELSE Only({ Ret(lua_pop(r.h, 1), <<r.d>>) : r \in {ref_value(l.h)} })
           : l \in {luaL_loadbuffer(h, source)} })
  : h \in {h_} })

(* The entries of a debugger table argument, copied into the host table:   *)
(* value first, then key, swapped, rawset.                                 *)
RECURSIVE copy_entries(_, _, _)
copy_entries(h_, entries, i) ==
  Only({
    IF i > Len(entries) THEN h
    ELSE copy_entries(
             lua_rawset(lua_insert(copy_fromR(entries[i][1],
                                              copy_fromR(entries[i][2], h).h).h)),
             entries, i + 1)
  : h \in {h_} })

eval_copy_args(d, h_) ==
  Only({
    Only({ IF a.t # LUA_TNONE THEN a
           ELSE IF d.t = LUA_TTABLE
           THEN [h |-> copy_entries(lua_newtable(a.h), Entries(d), 1), t |-> LUA_TTABLE]
           ELSE [h |-> Push(a.h, Nil), t |-> LUA_TNONE]
           : a \in {copy_fromR(d, h)} })
  : h \in {h_} })

(* The argument loop of lclient_eval and lclient_watch. *)
RECURSIVE copy_args(_, _, _)
copy_args(h_, args, i) ==
  Only({
    IF i > Len(args) THEN [h |-> h, ok |-> TRUE]
    ELSE Only({ IF i = 1 /\ a.t # LUA_TFUNCTION THEN [h |-> lua_pop(a.h, 1), ok |-> FALSE]
                ELSE copy_args(a.h, args, i + 1)
                : a \in {eval_copy_args(args[i], h)} })
  : h \in {h_} })

(* lclient_eval without the lua_pop of the error message. *)
lclient_eval_keepmsg(h_, args) ==
  Only({
    Only({
    IF ~c.ok
    THEN [h |-> c.h, ret |-> <<>>, err |-> "need function", called |-> FALSE, threw |-> FALSE]
    ELSE Only({
         IF r.status # 0
         THEN [h |-> r.h, ret |-> <<DVal(BoolV(FALSE)), DVal(Slot(r.h, -1))>>,
               err |-> "", called |-> TRUE, threw |-> TRUE]
         ELSE [h |-> lua_pop(r.h, 1),
               ret |-> <<DVal(BoolV(TRUE)), copy_value(r.h, FALSE).d>>,
               err |-> "", called |-> TRUE, threw |-> FALSE]
         : r \in {debug_pcall(c.h, Len(args) - 1, 1)} })
    : c \in {copy_args(h, args, 1)} })
  : h \in {h_} })

(* called: whether debug_pcall ran; threw: whether it reported an error. *)
lclient_eval(h_, args) ==
  Only({
    Only({
    IF ~c.ok
    THEN [h |-> c.h, ret |-> <<>>, err |-> "need function", called |-> FALSE, threw |-> FALSE]
    ELSE Only({
         IF r.status # 0
         THEN [h |-> lua_pop(r.h, 1), ret |-> <<DVal(BoolV(FALSE)), DVal(Slot(r.h, -1))>>,
               err |-> "", called |-> TRUE, threw |-> TRUE]
         ELSE [h |-> lua_pop(r.h, 1),
               ret |-> <<DVal(BoolV(TRUE)), copy_value(r.h, FALSE).d>>,
               err |-> "", called |-> TRUE, threw |-> FALSE]
         : r \in {debug_pcall(c.h, Len(args) - 1, 1)} })
    : c \in {copy_args(h, args, 1)} })
  : h \in {h_} })

(* addwatch(cL, idx): [h, ref] *)
addwatch(h_, idx) ==
  Only({
    Only({ [h |-> lua_pop(r.h, 1), ref |-> r.ref]
           : r \in {lua_ref(lua_insert(
                        AnchorTable(lua_pushvalue(h, idx), "__debugger_watch")))} })
  : h \in {h_} })

RECURSIVE watch_rets(_, _, _, _)
watch_rets(h_, i, rets, ds) ==
  Only({
    IF i >= rets THEN [h |-> h, ds |-> ds]
    ELSE Only({ watch_rets(w.h, i + 1, rets,
                           Append(ds, get_registry_value("__debugger_watch", w.ref)))
                : w \in {addwatch(h, i - rets)} })
  : h \in {h_} })

lclient_watch(h_, args) ==
  Only({
    LET n == lua_gettop(h) IN
    Only({
    IF ~c.ok
    THEN [h |-> c.h, ret |-> <<>>, err |-> "need function", called |-> FALSE, threw |-> FALSE]
    ELSE Only({
         IF r.status # 0
         THEN [h |-> lua_pop(r.h, 1), ret |-> <<DVal(BoolV(FALSE)), DVal(Slot(r.h, -1))>>,
               err |-> "", called |-> TRUE, threw |-> TRUE]
         ELSE Only({ [h |-> lua_settop(w.h, n), ret |-> <<DVal(BoolV(TRUE))>> \o w.ds,
                      err |-> "", called |-> TRUE, threw |-> FALSE]
                     : w \in {watch_rets(r.h, 0, lua_gettop(r.h) - n, <<>>)} })
         : r \in {debug_pcall(c.h, Len(args) - 1, LUA_MULTRET)} })
    : c \in {copy_args(h, args, 1)} })
  : h \in {h_} })

(* lclient_cleanwatch without the lua_setfield. *)
lclient_cleanwatch_keep(h_) ==
  Only({
    Ret(lua_pop(Push(h, Nil), 1), <<>>)
  : h \in {h_} })

(* lclient_cleanwatch clearing registry.__debugger_ref as well. *)
lclient_cleanwatch_both(h_) ==
  Only({
    Ret(lua_setfield(Push(lua_setfield(Push(h, Nil), "__debugger_watch"), Nil),
                     "__debugger_ref"), <<>>)
  : h \in {h_} })

lclient_cleanwatch(h_) ==
  Only({
    Ret(lua_setfield(Push(h, Nil), "__debugger_watch"), <<>>)
  : h \in {h_} })

(* a & b on non-negative integers *)
RECURSIVE BitAnd(_, _)
BitAnd(a, b) ==
    IF a = 0 \/ b = 0 THEN 0
    ELSE (a % 2) * (b % 2) + 2 * BitAnd(a \div 2, b \div 2)

(* lclient_gccount: k and b are what lua_gc(cL, LUA_GCCOUNT, 0) and        *)
(* lua_gc(cL, LUA_GCCOUNTB, 0) return.                                     *)
lclient_gccount(h_, k, b) ==
  Only({
    Ret(h, <<DVal(IntV(BitAnd(k * 1024, b)))>>)
  : h \in {h_} })

(* costatus(L, co): co is the heap index of the thread; L == co when it is *)
(* the host state itself.  lua_status(co) is the thread's status,          *)
(* lua_getstack(co, 0, &ar) whether it has a call frame and lua_gettop(co) *)
(* its stack depth.                                                        *)
costatus(h_, co) ==
  Only({
    IF co = h.self THEN "running"
    ELSE IF h.heap[co].status = "yield" THEN "suspended"
    ELSE IF h.heap[co].status = "ok"
    THEN IF h.heap[co].hasframe THEN "normal"
         ELSE IF h.heap[co].top = 0 THEN "dead"
         ELSE "suspended"
    ELSE "dead"
  : h \in {h_} })

lclient_costatus(h_, d) ==
  Only({
    Only({
    IF a.t = LUA_TNONE THEN Ret(a.h, <<DVal(StrV("invalid"))>>)
    ELSE IF lua_type(a.h, -1) # LUA_TTHREAD
    THEN Ret(lua_pop(a.h, 1), <<DVal(StrV("invalid"))>>)
    ELSE Ret(lua_pop(a.h, 1), <<DVal(StrV(costatus(a.h, Slot(a.h, -1).v)))>>)
    : a \in {copy_fromR(d, h)} })
  : h \in {h_} })

----------------------------------------------------------------------------
(* The host the debugger is attached to: paused in one call frame, with    *)
(* globals t (a table that is its own metatable), u (a userdata with a     *)
(* three-byte buffer and two user values) and f (the running function);    *)
(* the frame's locals are a number, t, u and a userdata with no bytes.     *)
(* The metatable of strings has a zero slot.                               *)
(* The host state is the main thread, registry[1]; the registry also holds *)
(* five coroutines the host has anchored with luaL_ref: one that yielded,  *)
(* one that resumed another, one not yet started, one that returned and    *)
(* one that raised an error.                                               *)

G == ObjV(LUA_TTABLE, 2)
T == ObjV(LUA_TTABLE, 3)
F == ObjV(LUA_TFUNCTION, 4)
U == ObjV(LUA_TUSERDATA, 5)
CO == ObjV(LUA_TTHREAD, 6)
StringMeta == ObjV(LUA_TTABLE, 7)
U0 == ObjV(LUA_TUSERDATA, 8)

HostHeap ==
    << TableObj(<<CO, G, IntV(0), ObjV(LUA_TTHREAD, 9), ObjV(LUA_TTHREAD, 10),
                  ObjV(LUA_TTHREAD, 11), ObjV(LUA_TTHREAD, 12), ObjV(LUA_TTHREAD, 13)>>,
                <<>>, Nil),
       TableObj(<<>>, <<Bucket(StrV("t"), T), Bucket(StrV("u"), U), Bucket(StrV("f"), F)>>, Nil),
       TableObj(<<IntV(10)>>,
                <<Bucket(StrV("a"), IntV(1)), Bucket(T, StrV("s")), Bucket(Nil, Nil)>>, T),
       FunctionObj(<<G, IntV(3)>>, "return 1"),
       UserdataObj(<<1, 2, 3>>, <<IntV(8), T>>, Nil),
       ThreadObj("ok", TRUE, 1),
       [TableObj(<<>>, <<Bucket(StrV("__index"), StringMeta)>>, Nil)
            EXCEPT !.zero = Bucket(IntV(0), StrV("z"))],
       UserdataObj(<<>>, <<>>, Nil),
       ThreadObj("yield", TRUE, 1),
       ThreadObj("ok", TRUE, 2),
       ThreadObj("ok", FALSE, 1),
       ThreadObj("ok", FALSE, 0),
       ThreadObj("error", FALSE, 1) >>

HostInit ==
    [stack |-> <<IntV(42)>>,
     under |-> 0,
     heap |-> HostHeap,
     self |-> CO.v,
     ub |-> FALSE,
     peak |-> -1,
     above |-> Nil,
     frames |-> <<[func |-> F, locals |-> <<IntV(7), T, U, U0>>, varargs |-> <<>>]>>,
     tmeta |-> [t \in {LUA_TNIL, LUA_TBOOLEAN, LUA_TLIGHTUSERDATA, LUA_TNUMBER,
                       LUA_TSTRING, LUA_TFUNCTION, LUA_TTHREAD} |->
                   IF t = LUA_TSTRING THEN StringMeta ELSE Nil]]

(* The ValuePaths the operations are given: every root, and every chain of *)
(* at most MaxPathLen steps over it.                                       *)

Roots ==
    { FrameLocal(0, 1), FrameLocal(0, 2), FrameLocal(0, 3), FrameLocal(0, 4),
      FrameLocal(0, 5), FrameLocal(1, 1), Step("FRAME_FUNC", 0), Step("GLOBAL", 0), Step("REGISTRY", 0),
      Step("STACK", 1), Step("METATABLE", LUA_TSTRING), Step("METATABLE", LUA_TFUNCTION) }

Inner ==
    { Step("INDEX_INT", 1), IndexStr("a"), IndexStr("t"), Step("INDEX_KEY", 1),
      Step("INDEX_VAL", 0), Step("INDEX_VAL", 2), Step("UPVALUE", 2), Step("UPVALUE", 3),
      Step("METATABLE", LUA_TTABLE), Step("METATABLE", LUA_TUSERDATA),
      Step("USERVALUE", 1), Step("USERVALUE", 2), Step("USERVALUE", 3) }

RECURSIVE PathsOfLen(_)
PathsOfLen(n) ==
    IF n = 1 THEN {<<r>> : r \in Roots}
    ELSE {<<s>> \o p : s \in Inner, p \in PathsOfLen(n - 1)}

Paths == UNION {PathsOfLen(n) : n \in 1..MaxPathLen}

(* The host values an assignment is given. *)
Primitives == {Nil, BoolV(TRUE), IntV(5), FloatV(2), StrV("s"), LudV(1)}

Values == Primitives \cup {T, F}

----------------------------------------------------------------------------
(* State machine.  Every action is one call, drawn with its arguments,     *)
(* and records in last what it was given and what it returned; top0 is the *)
(* host stack depth when the call began.                                   *)

Init ==
    /\ cL = HostInit
    /\ last = [op |-> "none"]
    /\ nops = 0

(* One call on the paused host. *)
Once == nops = 0

(* eval_value_(cL, p) *)
EvalValue(p) ==
    /\ \E e \in {eval_value_(cL, p)} :
       /\ cL' = e.h
       /\ last' = [op |-> "eval_value_", top0 |-> lua_gettop(cL), p |-> p, t |-> e.t,
                   rise |-> Rise(eval_value_(Marked(cL), p).h, cL)]
    /\ nops' = nops + 1

(* assign_value(p, cL), entered with x on the host stack top. *)
AssignValue(p, x) ==
    /\ \E a \in {assign_value(p, Push(cL, x))} :
       /\ cL' = a.h
       /\ last' = [op |-> "assign_value", top0 |-> lua_gettop(cL) + 1, p |-> p, x |-> x,
                   r |-> a.r,
                   rise |-> Rise(assign_value(p, Marked(Push(cL, x))).h, Push(cL, x))]
    /\ nops' = nops + 1

NextEval ==
    /\ Once
    /\ \/ \E p \in Paths : EvalValue(p)
       \/ \E p \in Paths, x \in Values : AssignValue(p, x)

SpecEval == Init /\ [][NextEval]_vars

------------------------------------------------------------

----------------------------------------------------------------------------
(* The visitor operations as actions.  t1 is the type the evaluation of    *)
(* the first argument returns and push1 the number of host stack slots it  *)
(* leaves behind.                                                          *)

Called(op, args, r, x) ==
    Only({ [op |-> op, top0 |-> lua_gettop(cL), args |-> args,
            t1 |-> a.t, push1 |-> lua_gettop(a.h) - lua_gettop(cL),
            ret |-> r.ret, err |-> r.err, x |-> x]
           : a \in {copy_fromR(args[1], cL)} })

Field(dt, dk, getref) ==
    /\ \E r \in {client_field(cL, dt, dk, getref)} :
       /\ cL' = r.h
       /\ last' = Called(IF getref THEN "field" ELSE "fieldv", <<dt, dk>>, r, <<>>)
    /\ nops' = nops + 1

Index(dt, dk, getref) ==
    /\ \E r \in {client_index(cL, dt, dk, getref)} :
       /\ cL' = r.h
       /\ last' = Called(IF getref THEN "index" ELSE "indexv", <<dt, dk>>, r, <<>>)
    /\ nops' = nops + 1

TableHash(dt, maxn, ref) ==
    /\ \E r \in {tablehash(cL, dt, maxn, ref)} :
       /\ cL' = r.h
       /\ last' = Called(IF ref THEN "tablehash" ELSE "tablehashv",
                         <<dt, DVal(IntV(maxn))>>, r, <<>>)
    /\ nops' = nops + 1

TableSize(dt) ==
    /\ \E r \in {lclient_tablesize(cL, dt)} :
       /\ cL' = r.h
       /\ last' = Called("tablesize", <<dt>>, r, <<>>)
    /\ nops' = nops + 1

TableKey(dt, idx) ==
    /\ \E r \in {lclient_tablekey(cL, dt, idx)} :
       /\ cL' = r.h
       /\ last' = Called("tablekey", <<dt, DVal(IntV(idx))>>, r, <<>>)
    /\ nops' = nops + 1

(* x: whether the userdata has the slot, and whether its value is primitive *)
GetUserValue(d, n, getref) ==
    /\ \E r \in {client_getuservalue(cL, d, n, getref)}, a \in {copy_fromR(d, cL)} :
       \E g \in {lua_getiuservalue(a.h, n)} :
          /\ cL' = r.h
          /\ last' = Called(IF getref THEN "getuservalue" ELSE "getuservaluev",
                            <<d, DVal(IntV(n))>>, r,
                            [slot |-> a.t = LUA_TUSERDATA /\ g.t # LUA_TNONE,
                             prim |-> a.t = LUA_TUSERDATA /\ copy_toR(g.h) # LUA_TNONE])
    /\ nops' = nops + 1

Value(d) ==
    /\ \E r \in {lclient_value(cL, d)} :
       /\ cL' = r.h
       /\ last' = Called("value", <<d>>, r, <<>>)
    /\ nops' = nops + 1

Assign(d1, d2) ==
    /\ \E r \in {lclient_assign(cL, d1, d2)} :
       /\ cL' = r.h
       /\ last' = Called("assign", <<d1, d2>>, r, [r |-> r.r])
    /\ nops' = nops + 1

GetInfo(d1, options) ==
    /\ \E r \in {lclient_getinfo(cL, d1, options)} :
       /\ cL' = r.h
       /\ last' = Called("getinfo", <<d1>>, r, [options |-> options])
    /\ nops' = nops + 1

GetMetatable(d, getref) ==
    /\ \E r \in {get_metatable(cL, d, getref)} :
       /\ cL' = r.h
       /\ last' = Called(IF getref THEN "getmetatable" ELSE "getmetatablev", <<d>>, r, <<>>)
    /\ nops' = nops + 1

(* x.buf0: the buffer of the userdata the path denotes, before the call *)
BufferOf(h, d) ==
    Only({ IF a.t = LUA_TUSERDATA THEN [ud |-> TRUE, buf |-> h.heap[Slot(a.h, -1).v].buf]
           ELSE [ud |-> FALSE, buf |-> <<>>]
           : a \in {copy_fromR(d, h)} })

UdRead(d, offset, count) ==
    /\ \E r \in {lclient_udread(cL, d, offset, count)} :
       /\ cL' = r.h
       /\ last' = Called("udread", <<d>>, r,
                         [offset |-> offset, count |-> count, buf0 |-> BufferOf(cL, d)])
    /\ nops' = nops + 1

UdWrite(d, offset, data, allowPartial) ==
    /\ \E r \in {lclient_udwrite(cL, d, offset, data, allowPartial)} :
       /\ cL' = r.h
       /\ last' = Called("udwrite", <<d>>, r,
                         [offset |-> offset, data |-> data, partial |-> allowPartial,
                          buf0 |-> BufferOf(cL, d)])
    /\ nops' = nops + 1

Load(source) ==
    /\ \E r \in {lclient_load(cL, source)} :
       /\ cL' = r.h
       /\ last' = [op |-> "load", top0 |-> lua_gettop(cL), source |-> source,
                   ret |-> r.ret, err |-> r.err]
    /\ nops' = nops + 1

(* Whether the arguments after the first are primitives or paths that     *)
(* resolve.                                                                *)
ArgsResolve(args) ==
    \A i \in 2..Len(args) :
        \/ IsPrimitive(args[i])
        \/ args[i].t = LUA_TUSERDATA /\ copy_fromR(args[i], cL).t # LUA_TNONE

Eval(args) ==
    /\ \E r \in {lclient_eval(cL, args)} :
       /\ cL' = r.h
       /\ last' = Called("eval", args, r, [called |-> r.called, threw |-> r.threw,
                                           argsok |-> ArgsResolve(args)])
    /\ nops' = nops + 1

Watch(args) ==
    /\ \E r \in {lclient_watch(cL, args)} :
       /\ cL' = r.h
       /\ last' = Called("watch", args, r, [called |-> r.called, threw |-> r.threw,
                                            argsok |-> ArgsResolve(args)])
    /\ nops' = nops + 1

CleanWatch ==
    /\ \E r \in {lclient_cleanwatch(cL)} : cL' = r.h
    /\ last' = [op |-> "cleanwatch", top0 |-> lua_gettop(cL)]
    /\ nops' = nops + 1

(* x.co: the heap index of the thread the path denotes, 0 when it denotes  *)
(* no thread.                                                              *)
ThreadOf(h, d) ==
    Only({ IF a.t = LUA_TTHREAD THEN Slot(a.h, -1).v ELSE 0
           : a \in {copy_fromR(d, h)} })

CoStatus(d) ==
    /\ \E r \in {lclient_costatus(cL, d)} :
       /\ cL' = r.h
       /\ last' = Called("costatus", <<d>>, r, [co |-> ThreadOf(cL, d)])
    /\ nops' = nops + 1

(* gccount(), on a host whose collector counts k kilobytes and b bytes. *)
GcCount(k, b) ==
    /\ \E r \in {lclient_gccount(cL, k, b)} :
       /\ cL' = r.h
       /\ last' = [op |-> "gccount", top0 |-> lua_gettop(cL), k |-> k, b |-> b,
                   ret |-> r.ret, err |-> r.err]
    /\ nops' = nops + 1

----------------------------------------------------------------------------
(* One visitor call on the paused host, over every path. *)

PathArgs == {DPath(p) : p \in Paths}

Keys == {DVal(StrV("a")), DVal(StrV("zz")), DVal(IntV(1)), DVal(IntV(2))}

Limits == {0, 1, 5}

Slots == {1, 2, 3}

OptionStrings ==
    { <<>>, <<"S">>, <<"f">>, <<"S", "l", "f">>, <<"x">>,
      <<"S", "l", "n", "f", "u", "t", "r">>, <<"S", "l", "n", "u", "t", "r", "S", "l">> }

InfoArgs == PathArgs \cup {DVal(IntV(0)), DVal(IntV(3)), DVal(StrV("s"))}

AssignTargets == PathArgs \cup {DVal(IntV(5)), DVal(Nil), DTable}

AssignValues ==
    {DVal(x) : x \in Primitives}
        \cup {DPath(<<FrameLocal(0, 2)>>), DPath(<<FrameLocal(1, 1)>>), DTable}

UdArgs ==
    {d \in PathArgs : copy_fromR(d, HostInit).t = LUA_TUSERDATA}
        \cup {DPath(<<FrameLocal(0, 2)>>), DPath(<<FrameLocal(1, 1)>>)}

Offsets == -1..4

Datas == {<<>>, <<9>>, <<9, 8>>, <<9, 8, 7>>, <<9, 8, 7, 6>>}

(* Every path, and the paths of the threads the registry anchors. *)
ThreadArgs ==
    PathArgs \cup {DPath(<<Step("INDEX_INT", i), Step("REGISTRY", 0)>>) : i \in 1..8}

(* What the host's collector may count: k kilobytes and b < 1024 bytes. *)
GcKilobytes == 0..3

GcBytes == {0, 1, 512, 1023}

NextCall ==
    /\ Once
    /\ \/ \E dt \in PathArgs, dk \in Keys, getref \in BOOLEAN : Field(dt, dk, getref)
       \/ \E dt \in PathArgs, dk \in Keys, getref \in BOOLEAN : Index(dt, dk, getref)
       \/ \E dt \in PathArgs, maxn \in Limits, ref \in BOOLEAN : TableHash(dt, maxn, ref)
       \/ \E dt \in PathArgs : TableSize(dt)
       \/ \E dt \in PathArgs, idx \in 0..1 : TableKey(dt, idx)
       \/ \E d \in PathArgs, n \in Slots, getref \in BOOLEAN : GetUserValue(d, n, getref)
       \/ \E d \in PathArgs : Value(d)
       \/ \E d1 \in AssignTargets, d2 \in AssignValues : Assign(d1, d2)
       \/ \E d1 \in InfoArgs, options \in OptionStrings : GetInfo(d1, options)
       \/ \E d \in UdArgs, offset \in Offsets, count \in 0..4 : UdRead(d, offset, count)
       \/ \E d \in UdArgs, offset \in Offsets, data \in Datas, partial \in BOOLEAN :
              UdWrite(d, offset, data, partial)
       \/ \E k \in GcKilobytes, b \in GcBytes : GcCount(k, b)
       \/ \E d \in ThreadArgs : CoStatus(d)

SpecCall == Init /\ [][NextCall]_vars

----------------
(* C1: eval_value_ either returns a type other than LUA_TNONE with the     *)
(* host stack exactly one deeper than before, or returns LUA_TNONE with    *)
(* the host stack depth unchanged.                                         *)
C1_EvalNetPush ==
    last.op = "eval_value_" =>
        \/ last.t # LUA_TNONE /\ lua_gettop(cL) = last.top0 + 1
        \/ last.t = LUA_TNONE /\ lua_gettop(cL) = last.top0

(* C2: assign_value returns with the host stack at its starting depth - 1, *)
(* whether it returns 1 or 0.                                              *)
C2_AssignConsumes ==
    last.op = "assign_value" => lua_gettop(cL) = last.top0 - 1

----------------------------------------------------------------------------
(* A debugging session: up to MaxOps calls of load, eval, watch and        *)
(* cleanwatch, one after the other, on the same paused host.  A call is    *)
(* made only while the host stack has not been popped below its base.      *)

Sources == {"return 1", "return {}", "return 1, {}", "error('x')", "("}

(* The first function load anchors in registry.__debugger_ref. *)
Loaded == get_registry_value("__debugger_ref", 1)

Callees == {DPath(<<Step("FRAME_FUNC", 0)>>), Loaded, DVal(IntV(1))}

FurtherArgs ==
    { <<>>, <<DVal(IntV(5))>>, <<DPath(<<FrameLocal(0, 2)>>), DVal(Nil)>>,
      <<DPath(<<FrameLocal(1, 1)>>)>>, <<DList(<<DVal(StrV("k"))>>)>> }

CallArgs == {<<f>> \o a : f \in Callees, a \in FurtherArgs}

Next ==
    /\ nops < MaxOps
    /\ cL.under = 0
    /\ \/ \E source \in Sources : Load(source)
       \/ \E args \in CallArgs : Eval(args)
       \/ \E args \in CallArgs : Watch(args)
       \/ CleanWatch

Spec == Init /\ [][Next]_vars

----------------------------------------------------------------------------
(* The claims. *)

TableOps ==
    {"field", "fieldv", "index", "indexv", "tablehash", "tablehashv", "tablesize", "tablekey"}

(* The key of field / fieldv is a string, that of index / indexv a positive *)
(* integer: the shapes the operations accept.                              *)
KeyAccepted ==
    /\ last.op \in {"field", "fieldv"} => last.args[2].t = LUA_TSTRING
    /\ last.op \in {"index", "indexv"} =>
           last.args[2].t = LUA_TNUMBER /\ last.args[2].v > 0

(* C3: when the table argument of field, fieldv, index, indexv, tablehash, *)
(* tablehashv, tablesize or tablekey is a path that does not resolve (its  *)
(* evaluation returns NONE and pushes nothing), the operation returns no   *)
(* values and leaves the host stack at the depth it found it.              *)
C3_UnresolvedTableArg ==
    (last.op \in TableOps /\ KeyAccepted /\ last.t1 = LUA_TNONE /\ last.push1 = 0)
        => (last.ret = <<>> /\ last.err = "" /\ lua_gettop(cL) = last.top0)

(* C4: for every path p and primitive v, if assign(p, v) returns true then *)
(* an immediately following value(p) returns v.                            *)
C4_AssignThenValue ==
    (/\ last.op = "assign"
     /\ last.args[1].t = LUA_TUSERDATA
     /\ IsPrimitive(last.args[2])
     /\ last.ret = <<DVal(BoolV(TRUE))>>)
        => lclient_value(cL, last.args[1]).ret = <<last.args[2]>>

(* C5: getuservalue and getuservaluev leave the host stack at the depth    *)
(* they found it in every outcome: the argument does not resolve (pushing  *)
(* nothing), it resolves to a non-userdata, the slot is missing, the user  *)
(* value is a primitive, the user value is not a primitive.                *)
C5_GetUserValueBalanced ==
    (/\ last.op \in {"getuservalue", "getuservaluev"}
     /\ last.t1 = LUA_TNONE => last.push1 = 0)
        => lua_gettop(cL) = last.top0

(* C8: assign called with a first argument that is not a ValuePath raises  *)
(* a user error and leaves the host stack depth unchanged, whatever the    *)
(* second argument (primitive, resolving path, non-resolving path).        *)
C8_AssignBadTarget ==
    (last.op = "assign" /\ last.args[1].t # LUA_TUSERDATA)
        => (last.err # "" /\ lua_gettop(cL) = last.top0)

(* C9: getinfo raises 'invalid option' when the option string is longer    *)
(* than 7 characters, contains a letter outside Slnfutr, or contains f     *)
(* while the first argument is a function path; in each of these cases,    *)
(* and when the first argument is a path that is not a function, the host  *)
(* stack depth is left unchanged.                                          *)
C9_GetInfoErrors ==
    last.op = "getinfo" =>
        LET options == last.x.options
            badoption ==
                \/ Len(options) > 7
                \/ \E i \in 1..Len(options) : options[i] \notin OptionLetters
                \/ /\ last.args[1].t = LUA_TUSERDATA
                   /\ last.t1 = LUA_TFUNCTION
                   /\ \E i \in 1..Len(options) : options[i] = "f"
            notfunction ==
                /\ last.args[1].t = LUA_TUSERDATA
                /\ last.t1 # LUA_TFUNCTION
                /\ last.t1 = LUA_TNONE => last.push1 = 0
        IN  /\ badoption => last.err = "invalid option"
            /\ (badoption \/ notfunction) => lua_gettop(cL) = last.top0

(* C10: for every userdata path p of buffer length n, every offset and     *)
(* every byte string data: udwrite(p, off, data, false) succeeds iff       *)
(* off >= 0 and off + len(data) <= n, a failed write leaves the buffer     *)
(* unchanged, and after a successful write udread(p, off, len(data))       *)
(* returns exactly data (also when len(data) = 0 and when off = n).        *)
C10_WriteThenRead ==
    (last.op = "udwrite" /\ ~last.x.partial /\ last.x.buf0.ud) =>
        LET p == last.args[1]
            off == last.x.offset
            data == last.x.data
            n == Len(last.x.buf0.buf)
            succeeded == last.ret = <<DVal(BoolV(TRUE))>>
        IN  /\ succeeded <=> (off >= 0 /\ off + Len(data) <= n)
            /\ ~succeeded => BufferOf(cL, p).buf = last.x.buf0.buf
            /\ succeeded => lclient_udread(cL, p, off, Len(data)).ret = <<DBytes(data)>>

(* C6: load(source) leaves the host stack depth unchanged both when the    *)
(* source compiles (it returns a reference to the function, anchored in    *)
(* registry.__debugger_ref) and when compilation fails (it returns nil and *)
(* the error message).                                                     *)
C6_LoadBalanced ==
    last.op = "load" =>
        /\ lua_gettop(cL) = last.top0
        /\ Compiles(last.source) =>
               /\ Len(last.ret) = 1
               /\ \E ref \in 1..Len(cL.heap) :
                      last.ret[1] = get_registry_value("__debugger_ref", ref)
               /\ LET e == eval_value_(cL, last.ret[1].p) IN
                  /\ e.t = LUA_TFUNCTION
                  /\ cL.heap[Slot(e.h, -1).v].body = last.source
        /\ ~Compiles(last.source) =>
               last.ret = <<DVal(Nil), DVal(StrV("syntax error"))>>

(* C7: eval and watch, called with a function as first argument and        *)
(* further arguments that are primitives or resolving paths, return        *)
(* (false, message) when the protected call throws and true plus the       *)
(* results when it succeeds; in both cases the host stack depth after the  *)
(* call equals the depth before it.                                        *)
C7_EvalWatchBalanced ==
    (last.op \in {"eval", "watch"} /\ last.t1 = LUA_TFUNCTION /\ last.x.argsok) =>
        /\ last.err = ""
        /\ lua_gettop(cL) = last.top0
        /\ last.x.threw => last.ret = <<DVal(BoolV(FALSE)), DVal(StrV("x"))>>
        /\ ~last.x.threw =>
               /\ last.ret[1] = DVal(BoolV(TRUE))
               /\ last.op = "eval" => Len(last.ret) = 2

C7_Witness ==
    /\ last.op \in {"eval", "watch"}
    /\ last.t1 = LUA_TFUNCTION
    /\ last.x.argsok
    /\ Len(last.args) >= 2
    /\ last.x.threw
    /\ lua_gettop(cL) = last.top0

(* C11: udwrite in non-partial mode returns a boolean in both outcomes:    *)
(* true when the write was performed and false when the range check        *)
(* offset >= 0 and offset + len(data) <= rawlen fails.                     *)
C11_UdWriteBoolean ==
    (last.op = "udwrite" /\ ~last.x.partial /\ last.x.buf0.ud) =>
        LET off == last.x.offset
            n == Len(last.x.buf0.buf)
            inrange == off >= 0 /\ off + Len(last.x.data) <= n
        IN  last.ret = <<DVal(BoolV(inrange))>>

(* What the buffer buf holds once the first k bytes of data are written at *)
(* offset off.                                                             *)
Written(buf, off, data, k) ==
    [i \in 1..Len(buf) |-> IF i > off /\ i <= off + k THEN data[i - off] ELSE buf[i]]

MinInt(a, b) == IF a < b THEN a ELSE b

MaxInt(a, b) == IF a > b THEN a ELSE b

(* C12 as stated: for every userdata of buffer length n, every offset      *)
(* (negative, in range, or >= n) and every byte string data,               *)
(* udwrite(p, off, data, true) writes and returns exactly                  *)
(* min(len(data), max(0, n - off)) bytes.                                  *)
C12_PartialWriteCount ==
    (last.op = "udwrite" /\ last.x.partial /\ last.x.buf0.ud) =>
        LET off == last.x.offset
            n == Len(last.x.buf0.buf)
            k == MinInt(Len(last.x.data), MaxInt(0, n - off))
        IN  last.ret = <<DVal(IntV(k))>>

(* C12 amended: a negative offset writes nothing and returns 0; an offset  *)
(* >= 0 writes and returns exactly min(len(data), max(0, n - off)) bytes,  *)
(* the first bytes of data, at off, and no other byte of the buffer        *)
(* changes.                                                                *)
C12_PartialWriteCountFrom0 ==
    (last.op = "udwrite" /\ last.x.partial /\ last.x.buf0.ud) =>
        LET off == last.x.offset
            buf0 == last.x.buf0.buf
            n == Len(buf0)
            k == IF off < 0 THEN 0 ELSE MinInt(Len(last.x.data), MaxInt(0, n - off))
        IN  /\ last.ret = <<DVal(IntV(k))>>
            /\ BufferOf(cL, last.args[1]).buf = Written(buf0, off, last.x.data, k)

(* A partial write that is cut short at the end of the buffer. *)
C12_Witness ==
    /\ last.op = "udwrite" /\ last.x.partial /\ last.x.buf0.ud
    /\ last.x.offset = 2 /\ Len(last.x.buf0.buf) = 3 /\ Len(last.x.data) = 3
    /\ last.ret = <<DVal(IntV(1))>>
    /\ BufferOf(cL, last.args[1]).buf = <<1, 2, 9>>

(* C13: gccount() returns (k << 10) + b, where k is the host's GC kilobyte *)
(* count and b (0..1023) its remainder byte count: the host's current      *)
(* memory usage in bytes.                                                  *)
C13_GcCountBytes ==
    last.op = "gccount" => last.ret = <<DVal(IntV(last.k * 1024 + last.b))>>

(* C14: costatus returns exactly one of running, suspended, normal, dead,  *)
(* invalid, decided as: invalid if the argument does not resolve or is not *)
(* a thread; running if the thread is the host state itself; suspended if  *)
(* its status is yield, or ok with no call frame and a non-empty stack;    *)
(* normal if its status is ok and it has a call frame; dead if its status  *)
(* is ok with no frame and an empty stack, or any error status.  The host  *)
(* stack depth is unchanged in every case.                                 *)
C14_CoStatus ==
    last.op = "costatus" =>
        LET co == last.x.co
            th == cL.heap[co]
            status ==
                IF last.t1 # LUA_TTHREAD THEN "invalid"
                ELSE IF co = cL.self THEN "running"
                ELSE IF th.status = "yield" THEN "suspended"
                ELSE IF th.status = "ok" /\ ~th.hasframe /\ th.top # 0 THEN "suspended"
                ELSE IF th.status = "ok" /\ th.hasframe THEN "normal"
                ELSE "dead"
        IN  /\ last.ret = <<DVal(StrV(status))>>
            /\ lua_gettop(cL) = last.top0

(* The occupied entries of the table tb in the order tablehash enumerates  *)
(* them: the buckets in use from bucket i on (counted from 1), then the    *)
(* zero slot; i is the index the entry's paths carry.                      *)
RECURSIVE EntriesFrom(_, _)
EntriesFrom(tb, i) ==
    IF i > Len(tb.node)
    THEN IF tb.zero.v # Nil
         THEN <<[i |-> Len(tb.node), k |-> tb.zero.k, v |-> tb.zero.v]>>
         ELSE <<>>
    ELSE (IF tb.node[i].v # Nil
          THEN <<[i |-> i - 1, k |-> tb.node[i].k, v |-> tb.node[i].v]>>
          ELSE <<>>) \o EntriesFrom(tb, i + 1)

(* The entries of the table the first argument of the last call denotes. *)
LastEntries ==
    Only({ EntriesFrom(cL.heap[Slot(a.h, -1).v], 1) : a \in {copy_fromR(last.args[1], cL)} })

KeyPath(dt, e) == DPath(<<Step("INDEX_KEY", e.i)>> \o dt.p)

ValPath(dt, e) == DPath(<<Step("INDEX_VAL", e.i)>> \o dt.p)

CopyOr(x, path) == IF IsPrimitive(x) THEN DVal(x) ELSE path

HashListed ==
    /\ last.op \in {"tablehash", "tablehashv"}
    /\ last.t1 = LUA_TTABLE
    /\ last.err = ""

(* C15 as stated: in the list tablehash returns each entry occupies three  *)
(* consecutive positions [key_path, value_path, value_copy_or_path]; in    *)
(* the list tablehashv returns each entry occupies two consecutive         *)
(* positions [key_copy_or_path, value_copy_or_path].                       *)
C15_HashLayout ==
    HashListed =>
        LET dt == last.args[1]
            items == last.ret[1].p
            es == LastEntries
        IN  IF last.op = "tablehash"
            THEN /\ Len(items) % 3 = 0
                 /\ \A j \in 1..(Len(items) \div 3) :
                        /\ items[3 * j - 2] = KeyPath(dt, es[j])
                        /\ items[3 * j - 1] = ValPath(dt, es[j])
                        /\ items[3 * j] = CopyOr(es[j].v, ValPath(dt, es[j]))
            ELSE /\ Len(items) % 2 = 0
                 /\ \A j \in 1..(Len(items) \div 2) :
                        /\ items[2 * j - 1] = CopyOr(es[j].k, KeyPath(dt, es[j]))
                        /\ items[2 * j] = CopyOr(es[j].v, ValPath(dt, es[j]))

(* C16: for a table with e occupied hash entries (zero slot included) and  *)
(* a limit max_n >= 0, tablehash returns a list of length                  *)
(* 3 * min(e, max_n) and tablehashv one of length 2 * min(e, max_n), with  *)
(* every enumerated key appearing exactly once; the host stack depth is    *)
(* unchanged whether the enumeration runs to the end or stops early at the *)
(* limit.                                                                  *)
C16_HashLength ==
    HashListed =>
        LET dt == last.args[1]
            items == last.ret[1].p
            es == LastEntries
            w == IF last.op = "tablehash" THEN 3 ELSE 2
            m == MinInt(Len(es), last.args[2].v)
            key(j) == items[w * (j - 1) + 1]
        IN  /\ Len(items) = w * m
            /\ \A j \in 1..m : key(j) = CopyOr(es[j].k, KeyPath(dt, es[j]))
            /\ \A i, j \in 1..m : key(i) = key(j) => i = j
            /\ lua_gettop(cL) = last.top0

----------------------------------------------------------------------------
(* A debugging session over the registry's anchor tables: functions are    *)
(* loaded and called, the paths the calls return are evaluated and read,   *)
(* the watch table is cleared, and the debugger assigns through the        *)
(* registry.                                                               *)

AnchorPath(name, ref) == get_registry_value(name, ref).p

AnchorSources == {"return 1, {}", "return nil"}

AnchorCalls == {<<get_registry_value("__debugger_ref", ref)>> : ref \in 1..2}

(* The paths of the handles the session can issue, and one path of every   *)
(* kind of step.                                                           *)
EvalPaths ==
    {AnchorPath("__debugger_watch", ref) : ref \in {LUA_REFNIL, 1, 2}}
        \cup {AnchorPath("__debugger_ref", ref) : ref \in 1..2}
        \cup { <<FrameLocal(0, 2)>>, <<Step("STACK", 1)>>,
               <<Step("UPVALUE", 1), Step("FRAME_FUNC", 0)>>,
               <<Step("INDEX_KEY", 1), Step("GLOBAL", 0)>>,
               <<Step("INDEX_VAL", 0), FrameLocal(0, 2)>>,
               <<Step("USERVALUE", 2), FrameLocal(0, 3)>>,
               <<Step("METATABLE", LUA_TTABLE), FrameLocal(0, 2)>>,
               <<Step("METATABLE", LUA_TSTRING)>>,
               <<IndexStr("missing"), Step("REGISTRY", 0)>> }

WatchArgs == {DPath(AnchorPath("__debugger_watch", ref)) : ref \in 1..2}

RegistryTargets ==
    { DPath(<<IndexStr("__debugger_ref"), Step("REGISTRY", 0)>>),
      DPath(AnchorPath("__debugger_ref", 1)) }

NextAnchor ==
    /\ nops < MaxAnchorOps
    /\ cL.under = 0
    /\ \/ \E source \in AnchorSources : Load(source)
       \/ \E args \in AnchorCalls : Eval(args)
       \/ \E args \in AnchorCalls : Watch(args)
       \/ CleanWatch
       \/ \E p \in EvalPaths : EvalValue(p)
       \/ \E d \in WatchArgs : Value(d)
       \/ \E d1 \in RegistryTargets : Assign(d1, DVal(Nil))

SpecAnchor == Init /\ [][NextAnchor]_vars

(* unref_value(cL, ref) *)
Unref(ref) ==
    /\ \E h1 \in {unref_value(cL, ref)} : cL' = h1
    /\ last' = [op |-> "unref_value", top0 |-> lua_gettop(cL), ref |-> ref]
    /\ nops' = nops + 1

(* The handles unref_value is given: those ref_value issues, LUA_REFNIL    *)
(* and LUA_NOREF.                                                          *)
Handles == {LUA_NOREF, LUA_REFNIL, 1, 2, 4}

(* A session in which functions are loaded, which anchors them in          *)
(* registry.__debugger_ref, and handles are released.                      *)
NextRef ==
    /\ nops < MaxAnchorOps
    /\ cL.under = 0
    /\ \/ \E source \in AnchorSources : Load(source)
       \/ \E ref \in Handles : Unref(ref)

SpecRef == Init /\ [][NextRef]_vars

(* eval_copy_args(L, cL) for the argument d; heap0 is the number of heap   *)
(* objects before the call.                                                *)
CopyArg(d) ==
    /\ \E e \in {eval_copy_args(d, cL)} :
       /\ cL' = e.h
       /\ last' = [op |-> "eval_copy_args", top0 |-> lua_gettop(cL), d |-> d, t |-> e.t,
                   heap0 |-> Len(cL.heap)]
    /\ nops' = nops + 1

(* The keys and values of the debugger-side tables: primitives, a path     *)
(* that resolves (to the table t), a path that does not, and as values     *)
(* also tables.                                                            *)
KeyComponents ==
    { DVal(IntV(5)), DVal(StrV("k")), DVal(BoolV(TRUE)),
      DPath(<<FrameLocal(0, 2)>>), DPath(<<FrameLocal(1, 1)>>) }

ValueComponents ==
    KeyComponents \cup {DMap(<<>>), DMap(<<<<DVal(StrV("k")), DVal(IntV(5))>>>>)}

(* The lists of n pairs with pairwise different keys. *)
RECURSIVE PairsOfLen(_)
PairsOfLen(n) ==
    IF n = 0 THEN {<<>>}
    ELSE { Append(ps, <<k, v>>) :
             ps \in PairsOfLen(n - 1),
             k \in KeyComponents, v \in ValueComponents }

TableArgs ==
    { DMap(ps) : ps \in { qs \in UNION {PairsOfLen(n) : n \in 0..MaxEntries} :
                             \A i, j \in 1..Len(qs) : qs[i][1] = qs[j][1] => i = j } }

PlainArgs ==
    {DVal(IntV(5)), DPath(<<FrameLocal(0, 2)>>), DPath(<<Step("FRAME_FUNC", 0)>>)}

(* The argument loop of eval and watch, one argument at a time: a table    *)
(* argument, copied onto the host stack as it is or above an argument      *)
(* copied before it.                                                       *)
NextCopy ==
    /\ cL.under = 0
    /\ ~cL.ub
    /\ \/ Once /\ \E d \in PlainArgs : CopyArg(d)
       \/ (last.op = "eval_copy_args" => last.d.t # LUA_TTABLE)
             /\ \E d \in TableArgs : CopyArg(d)

SpecCopy == Init /\ [][NextCopy]_vars

(* The path k applications of getmetatable give for the local t, a table  *)
(* that is its own metatable.                                              *)
RECURSIVE Chain(_)
Chain(k) ==
    IF k = 0 THEN <<FrameLocal(0, 2)>>
    ELSE <<Step("METATABLE", LUA_TTABLE)>> \o Chain(k - 1)

(* What metatables are read and set on: the chains over t, the locals (a   *)
(* number, t, a userdata without metatable, a userdata, none), the globals *)
(* table, the metatable of strings, and values of every other type.        *)
Receivers ==
    {Chain(k) : k \in 0..MaxChain}
        \cup { <<FrameLocal(0, n)>> : n \in 1..5 }
        \cup { <<Step("GLOBAL", 0)>>, <<Step("FRAME_FUNC", 0)>>,
               <<Step("METATABLE", LUA_TSTRING)>>, <<Step("INDEX_INT", 1), Step("REGISTRY", 0)>> }

MetaArgs ==
    {DPath(p) : p \in Receivers} \cup {DVal(x) : x \in Primitives} \cup {DTable}

MetaPaths ==
    { <<Step("METATABLE", t)>> \o p : t \in {LUA_TTABLE, LUA_TUSERDATA}, p \in Receivers }
        \cup { <<Step("METATABLE", t)>> :
                 t \in {LUA_TNIL, LUA_TBOOLEAN, LUA_TLIGHTUSERDATA, LUA_TNUMBER,
                        LUA_TSTRING, LUA_TFUNCTION, LUA_TTHREAD} }

(* One call that reads a metatable or sets one. *)
NextMeta ==
    /\ Once
    /\ \/ \E d \in MetaArgs, getref \in BOOLEAN : GetMetatable(d, getref)
       \/ \E rp \in Receivers \cup MetaPaths : EvalValue(rp)
       \/ \E mp \in MetaPaths, x \in Values \cup {G} : AssignValue(mp, x)

SpecMeta == Init /\ [][NextMeta]_vars

(* C17: evaluating a path changes no host state other than the host stack  *)
(* top: locals, upvalues, table contents, metatables, user values and both *)
(* registry anchor tables are identical before and after eval_value_;      *)
(* consequently two evaluations of the same resolving path with no         *)
(* intervening mutation yield equal primitives and the identical           *)
(* aggregate.                                                              *)
C17_EvalFrame ==
    [][ last'.op = "eval_value_" =>
          /\ cL'.heap = cL.heap
          /\ cL'.frames = cL.frames
          /\ cL'.tmeta = cL.tmeta
          /\ cL'.self = cL.self
          /\ Len(cL'.stack) >= Len(cL.stack)
          /\ \A i \in 1..Len(cL.stack) : cL'.stack[i] = cL.stack[i]
          /\ last'.t # LUA_TNONE =>
                \E e \in {eval_value_(cL', last'.p)} :
                    /\ e.t = last'.t
                    /\ Slot(e.h, -1) = Slot(cL', -1)
                    /\ e.h.heap = cL.heap ]_vars

(* A path into the watch table has been evaluated to the table a watched   *)
(* call returned.                                                          *)
C17_Witness ==
    /\ last.op = "eval_value_"
    /\ last.p = AnchorPath("__debugger_watch", 2)
    /\ last.t = LUA_TTABLE
    /\ Slot(cL, -1).t = LUA_TTABLE

(* Whether ref is a live handle of the anchor table `name` of the host h:  *)
(* the registry holds the table and the table a value at ref.              *)
Live(h, name, ref) ==
    \E tv \in {RawGet(Registry(h), StrV(name))} :
        /\ tv.t = LUA_TTABLE
        /\ ref # freelist
        /\ RawGet(h.heap[tv.v], IntV(ref)) # Nil

(* What the step to the state of rec issued: for every anchored value the  *)
(* anchor table, the path returned for it and the kind of value it is.     *)
Issued(h, rec) ==
    IF rec.op = "load" /\ Len(rec.ret) = 1
    THEN <<[name |-> "__debugger_ref", d |-> rec.ret[1], kind |-> "function"]>>
    ELSE IF rec.op = "watch" /\ rec.err = "" /\ rec.ret[1] = DVal(BoolV(TRUE))
    THEN Only({ [i \in 1..(Len(rec.ret) - 1) |->
                    [name |-> "__debugger_watch", d |-> rec.ret[i + 1],
                     kind |-> Results(h.heap[Slot(f.h, -1).v].body)[i]]]
                : f \in {copy_fromR(rec.args[1], h)} })
    ELSE <<>>

(* Whether the path d evaluates, in the host h, to the value of the given  *)
(* kind that the step from the host h0 anchored.                           *)
EvaluatesTo(h, d, kind, h0) ==
    \E e \in {eval_value_(h, d.p)} :
        CASE kind = "nil" -> e.t = LUA_TNIL
          [] kind = "one" -> e.t = LUA_TNUMBER /\ Slot(e.h, -1) = IntV(1)
          [] kind = "table" ->
                e.t = LUA_TTABLE /\ Slot(e.h, -1).v > Len(h0.heap)
          [] OTHER -> e.t = LUA_TFUNCTION /\ Slot(e.h, -1).v > Len(h0.heap)

(* C18 as stated: every handle issued by ref_value (into                   *)
(* registry.__debugger_ref) or addwatch (into registry.__debugger_watch)   *)
(* is a positive integer distinct from every other live handle of the same *)
(* table, for every anchored value including nil results of a watched      *)
(* call, and the path INDEX_INT(handle) -> INDEX_STR(table name) ->        *)
(* REGISTRY built for it evaluates to the anchored value.                  *)
C18_Handles ==
    [][ \E is \in {Issued(cL, last')} :
          \A i \in 1..Len(is) :
             \E ref \in {is[i].d.p[1].index} :
                /\ is[i].d = get_registry_value(is[i].name, ref)
                /\ ref > 0
                /\ ~Live(cL, is[i].name, ref)
                /\ \A j \in 1..Len(is) : j # i => is[j].d # is[i].d
                /\ EvaluatesTo(cL', is[i].d, is[i].kind, cL) ]_vars

(* C18 amended: every handle issued by ref_value or addwatch for a value   *)
(* other than nil is a positive integer distinct from every other live     *)
(* handle of the same table; a nil result of a watched call is given the   *)
(* handle LUA_REFNIL, which all nil results share; in both cases the path  *)
(* INDEX_INT(handle) -> INDEX_STR(table name) -> REGISTRY built for it     *)
(* evaluates to the anchored value.                                        *)
C18_HandlesNonNil ==
    [][ \E is \in {Issued(cL, last')} :
          \A i \in 1..Len(is) :
             \E ref \in {is[i].d.p[1].index} :
                /\ is[i].d = get_registry_value(is[i].name, ref)
                /\ EvaluatesTo(cL', is[i].d, is[i].kind, cL)
                /\ IF is[i].kind = "nil" THEN ref = LUA_REFNIL
                   ELSE /\ ref > 0
                        /\ ~Live(cL, is[i].name, ref)
                        /\ \A j \in 1..Len(is) : j # i => is[j].d # is[i].d ]_vars

(* A watched call has been given handles in a watch table that held live   *)
(* handles already.                                                        *)
C18_Witness ==
    /\ last.op = "watch"
    /\ last.ret = <<DVal(BoolV(TRUE)), get_registry_value("__debugger_watch", 4),
                    get_registry_value("__debugger_watch", 5)>>
    /\ Live(cL, "__debugger_watch", 1) /\ Live(cL, "__debugger_watch", 2)
    /\ Live(cL, "__debugger_watch", 4) /\ Live(cL, "__debugger_watch", 5)

(* The handles of the anchor table `name` of the host h that hold a value. *)
LiveHandles(h, name) ==
    Only({ IF tv.t # LUA_TTABLE THEN {}
           ELSE {ref \in 1..(Len(h.heap[tv.v].arr) + Len(h.heap[tv.v].node) + 1) :
                    Live(h, name, ref)}
           : tv \in {RawGet(Registry(h), StrV(name))} })

(* The value the handle ref of the anchor table `name` holds in h. *)
Anchored(h, name, ref) == RawGet(h.heap[RawGet(Registry(h), StrV(name)).v], IntV(ref))

(* What evaluating the path p gives in h: the type and the value on top. *)
Evaluated(h, p) ==
    Only({ [t |-> e.t, x |-> IF e.t = LUA_TNONE THEN Nil ELSE Slot(e.h, -1)]
           : e \in {eval_value_(h, p)} })

AssignsRef(rec) ==
    /\ rec.op = "assign"
    /\ rec.args[1].t = LUA_TUSERDATA
    /\ \E i \in 1..(Len(rec.args[1].p) - 1) :
          /\ rec.args[1].p[i] = IndexStr("__debugger_ref")
          /\ rec.args[1].p[i + 1] = Step("REGISTRY", 0)

(* Once created, registry.__debugger_ref stays and its handles keep their  *)
(* values in the step from h to h1.                                        *)
RefKept(h, h1) ==
    \E tv \in {RawGet(Registry(h), StrV("__debugger_ref"))} :
        tv.t = LUA_TTABLE =>
            /\ RawGet(Registry(h1), StrV("__debugger_ref")) = tv
            /\ \A ref \in LiveHandles(h, "__debugger_ref") :
                  Anchored(h1, "__debugger_ref", ref) = Anchored(h, "__debugger_ref", ref)

(* cleanwatch sets registry.__debugger_watch to nil and nothing else. *)
CleanOnlyWatch(h, h1, rec) ==
    rec.op = "cleanwatch" =>
        h1 = [h EXCEPT !.heap[LUA_REGISTRYINDEX] = RawSet(@, StrV("__debugger_watch"), Nil)]

(* C20 as stated: across any sequence of visitor operations,               *)
(* registry.__debugger_ref once created is never removed or replaced, and  *)
(* its live handles keep their values (no operation of the model frees     *)
(* one); cleanwatch sets only registry.__debugger_watch to nil and changes *)
(* nothing in __debugger_ref.                                              *)
C20_RefKept ==
    [][ RefKept(cL, cL') /\ CleanOnlyWatch(cL, cL', last') ]_vars

(* C20 amended: across any sequence of visitor operations in which no      *)
(* assign names a path through registry.__debugger_ref, the table once     *)
(* created is never removed or replaced and its live handles keep their    *)
(* values; cleanwatch sets only registry.__debugger_watch to nil and       *)
(* changes nothing in __debugger_ref.                                      *)
C20_RefKeptUnlessAssigned ==
    [][ /\ ~AssignsRef(last') => RefKept(cL, cL')
        /\ CleanOnlyWatch(cL, cL', last') ]_vars

(* The watch table has been cleared while registry.__debugger_ref held a   *)
(* loaded function, which it still holds.                                  *)
C20_Witness ==
    /\ last.op = "cleanwatch"
    /\ Live(cL, "__debugger_ref", 1)
    /\ Evaluated(cL, AnchorPath("__debugger_ref", 1)).t = LUA_TFUNCTION
    /\ \E i \in 1..Len(Registry(cL).node) :
          Registry(cL).node[i] = Bucket(StrV("__debugger_watch"), Nil)

----------------------------------------------------------------------------
(* The handles two further ref_value calls issue in the host h, for two    *)
(* values anchored one after the other.                                    *)
NextHandles(h) ==
    Only({ Only({ <<r1.ref, r2.ref>>
                  : r2 \in {ref_value(Push(lua_pop(r1.h, 1), F))} })
           : r1 \in {ref_value(Push(h, T))} })

(* C21: unref_value is idempotent: calling unref_value(h) twice leaves     *)
(* registry.__debugger_ref (its entries and its free-handle bookkeeping)   *)
(* in the same state as calling it once, so later ref_value calls still    *)
(* issue pairwise distinct handles; when the __debugger_ref table is       *)
(* absent or h is negative, unref_value changes nothing; in all cases the  *)
(* host stack depth is unchanged.                                          *)
C21_UnrefIdempotent ==
    [][ last'.op = "unref_value" =>
          \E ref \in {last'.ref}, tv \in {RawGet(Registry(cL), StrV("__debugger_ref"))} :
             /\ lua_gettop(cL') = lua_gettop(cL)
             /\ (ref < 0 \/ tv.t # LUA_TTABLE) => cL' = cL
             /\ \E twice \in {unref_value(cL', ref)} :
                   /\ twice = cL'
                   /\ lua_gettop(twice) = lua_gettop(cL)
                   /\ \E hs \in {NextHandles(twice)} : hs[1] # hs[2] ]_vars

----------------------------------------------------------------------------
(* The results of the function the call of rec was given, as the body of   *)
(* the function names them.                                                *)
ResultsOf(h, rec) ==
    Only({ Results(h.heap[Slot(f.h, -1).v].body)
           : f \in {copy_fromR(rec.args[1], h)} })

(* C22: on success eval returns (true, r) where r is a copy of the call's  *)
(* result when that result is primitive and a ValuePath that resolves to   *)
(* the result when it is non-primitive (table, function, userdata,         *)
(* thread).  The table a call makes is the newest object of the heap.      *)
C22_EvalResult ==
    (last.op = "eval" /\ last.x.called /\ ~last.x.threw) =>
        \E rs \in {ResultsOf(cL, last)} :
            /\ Len(last.ret) = 2
            /\ last.ret[1] = DVal(BoolV(TRUE))
            /\ CASE rs[1] = "one" -> last.ret[2] = DVal(IntV(1))
                 [] rs[1] = "table" ->
                       /\ last.ret[2].t = LUA_TUSERDATA
                       /\ \E e \in {eval_value_(cL, last.ret[2].p)} :
                             /\ e.t = LUA_TTABLE
                             /\ Slot(e.h, -1) = ObjV(LUA_TTABLE, Len(cL.heap))
                 [] OTHER -> last.ret[2] = DVal(Nil)

----------------------------------------------------------------------------
(* Whether the debugger-side value d is a primitive or a path that         *)
(* resolves in h, and the host value it then stands for.                   *)
Stands(h, d) ==
    \/ IsPrimitive(d)
    \/ d.t = LUA_TUSERDATA /\ eval_value_(h, d.p).t # LUA_TNONE

HostOf(h, d) ==
    IF IsPrimitive(d) THEN HostVal(d) ELSE Slot(eval_value_(h, d.p).h, -1)

(* Whether x is, in h, a host table made after heap0 that copies the       *)
(* debugger-side table d: every pair of primitives and resolving paths is  *)
(* in it, and every table value is in it as a host table copying it.       *)
RECURSIVE CopyOf(_, _, _, _)
CopyOf(h, d, x, heap0) ==
    /\ IsObj(h, x, "table")
    /\ x.v > heap0
    /\ \A i \in 1..Len(Entries(d)) :
          \E k \in {Entries(d)[i][1]}, v \in {Entries(d)[i][2]} :
             Stands(h, k) =>
                \E y \in {RawGet(h.heap[x.v], HostOf(h, k))} :
                   /\ Stands(h, v) => y = HostOf(h, v)
                   /\ v.t = LUA_TTABLE => CopyOf(h, v, y, heap0)

(* C23: a debugger-side table passed as an argument to eval or watch is    *)
(* reconstructed in the host as a deep copy: every key/value pair with     *)
(* primitive or path components is present in the host table, every nested *)
(* debugger table appears as a nested host table, and after the copy the   *)
(* host stack holds exactly one new value (the table) for that argument.   *)
C23_DeepCopy ==
    (last.op = "eval_copy_args" /\ last.d.t = LUA_TTABLE) =>
        /\ ~cL.ub
        /\ last.t = LUA_TTABLE
        /\ lua_gettop(cL) = last.top0 + 1
        /\ CopyOf(cL, last.d, Slot(cL, -1), last.heap0)

----------------------------------------------------------------------------
Unassignable == {"FRAME_FUNC", "GLOBAL", "REGISTRY", "STACK", "INDEX_KEY"}

(* C24: assign_value on a path whose outermost step is FRAME_FUNC, GLOBAL, *)
(* REGISTRY, STACK or INDEX_KEY returns false and changes no host state    *)
(* other than consuming the value from the host stack top: the host is     *)
(* afterwards as it was before the value was pushed.                       *)
C24_Unassignable ==
    [][ (last'.op = "assign_value" /\ last'.p[1].type \in Unassignable) =>
          /\ last'.r = 0
          /\ lua_gettop(cL') = last'.top0 - 1
          /\ cL' = cL ]_vars

(* The key of a bucket in use of the table t has been refused a table. *)
C24_Witness ==
    /\ last.op = "assign_value"
    /\ last.p = <<Step("INDEX_KEY", 1), FrameLocal(0, 2)>>
    /\ last.x = T
    /\ last.r = 0
    /\ eval_value_(cL, last.p).t = LUA_TTABLE
    /\ cL = HostInit

----------------------------------------------------------------------------
(* Whether x is the value the evaluation of p leaves on top of h. *)
Yields(h, p, x) ==
    \E e \in {eval_value_(h, p)} : e.t = x.t /\ Slot(e.h, -1) = x

(* The receiver of the METATABLE path p in h: the dummy of the base type,  *)
(* or the table or userdata the inner path resolves to (nil when it        *)
(* resolves to none).                                                      *)
ReceiverOf(h, p) ==
    IF p[1].index # LUA_TTABLE /\ p[1].index # LUA_TUSERDATA
    THEN IF HasDummy(p[1].index) THEN DummyOf(p[1].index) ELSE Nil
    ELSE Only({ IF e.t = LUA_TTABLE \/ e.t = LUA_TUSERDATA THEN Slot(e.h, -1) ELSE Nil
                : e \in {eval_value_(h, Tail(p))} })

(* C25 as stated: assign_value on a METATABLE path succeeds only when the  *)
(* value being assigned is nil or a table; for any other value type it     *)
(* returns false and the receiver's metatable is unchanged; when it        *)
(* succeeds, evaluating the same METATABLE path afterwards yields the      *)
(* assigned table (or nil).                                                *)
C25_AssignMetatable ==
    [][ (last'.op = "assign_value" /\ last'.p[1].type = "METATABLE") =>
          /\ last'.r = 1 => last'.x.t \in {LUA_TNIL, LUA_TTABLE}
          /\ last'.x.t \notin {LUA_TNIL, LUA_TTABLE} =>
                /\ last'.r = 0
                /\ cL'.heap = cL.heap
                /\ cL'.tmeta = cL.tmeta
          /\ last'.r = 1 => Yields(cL', last'.p, last'.x) ]_vars

(* C25 amended: assign_value on a METATABLE path succeeds only when the    *)
(* value being assigned is nil or a table; for any other value type it     *)
(* returns false and the receiver's metatable is unchanged; when it        *)
(* succeeds, the metatable of the receiver is the assigned table (or nil), *)
(* and evaluating the same METATABLE path afterwards yields it whenever    *)
(* the inner path still resolves to that receiver (it may not when it      *)
(* passes through the metatable that was replaced).                        *)
C25_AssignMetatableOfReceiver ==
    [][ (last'.op = "assign_value" /\ last'.p[1].type = "METATABLE") =>
          /\ last'.r = 1 => last'.x.t \in {LUA_TNIL, LUA_TTABLE}
          /\ last'.x.t \notin {LUA_TNIL, LUA_TTABLE} =>
                /\ last'.r = 0
                /\ cL'.heap = cL.heap
                /\ cL'.tmeta = cL.tmeta
          /\ last'.r = 1 =>
                \E rc \in {ReceiverOf(cL, last'.p)} :
                   /\ MetatableOf(cL', rc) = last'.x
                   /\ ReceiverOf(cL', last'.p) = rc => Yields(cL', last'.p, last'.x) ]_vars

(* The metatable of the metatable of t, which was t itself, has been set   *)
(* to the globals table: t has the new metatable, and the path, whose      *)
(* inner steps now lead to the globals table, yields nil.                  *)
C25_Witness ==
    /\ last.op = "assign_value"
    /\ last.p = Chain(2)
    /\ last.x = G
    /\ last.r = 1
    /\ MetatableOf(cL, T) = G
    /\ ReceiverOf(cL, last.p) = G
    /\ Yields(cL, last.p, Nil)

----------------------------------------------------------------------------
(* Whether evaluating p in h pushes exactly one value, x, and returns its  *)
(* type.                                                                   *)
PushesOne(h, p, x) ==
    \E e \in {eval_value_(h, p)} :
        /\ e.t = x.t
        /\ lua_gettop(e.h) = lua_gettop(h) + 1
        /\ Slot(e.h, -1) = x

(* C26: for a host table t that is its own metatable, applying             *)
(* getmetatable k times to a path to t (k = 1, 2, 3, ...) yields a path    *)
(* whose evaluation pushes exactly one value, t itself, with host stack    *)
(* depth after each getmetatable call unchanged; for a receiver without a  *)
(* metatable, evaluating the Ref-form METATABLE path returns NIL with one  *)
(* nil pushed, while getmetatablev returns nothing.                        *)
C26_MetatableChain ==
    (last.op \in {"getmetatable", "getmetatablev"}) =>
        /\ \A k \in 0..MaxChain :
              last.args[1] = DPath(Chain(k)) =>
                  /\ last.ret = <<DPath(Chain(k + 1))>>
                  /\ lua_gettop(cL) = last.top0
                  /\ PushesOne(cL, Chain(k + 1), T)
        /\ (Stands(cL, last.args[1]) /\ MetatableOf(cL, HostOf(cL, last.args[1])) = Nil) =>
              /\ lua_gettop(cL) = last.top0
              /\ IF last.op = "getmetatablev" THEN last.ret = <<>>
                 ELSE /\ Len(last.ret) = 1
                      /\ last.ret[1].t = LUA_TUSERDATA
                      /\ last.ret[1].p[1].type = "METATABLE"
                      /\ PushesOne(cL, last.ret[1].p, Nil)


----------------------------------------------------------------------------
(* Scans of a hash part with tablekey.  The local t of the paused frame    *)
(* has a hash part of up to MaxBuckets buckets, each holding a string key, *)
(* an integer key, a key whose value has been set to nil, or nothing.  A   *)
(* scan starts anywhere and goes on from the index the last call returned; *)
(* last.x keeps where the scan started and the keys it has returned.       *)

KeyNames == <<"a", "b", "c", "d", "e">>

BucketOfKind(kind, i) ==
    CASE kind = "string" -> Bucket(StrV(KeyNames[i]), IntV(i))
      [] kind = "integer" -> Bucket(IntV(0 - i), IntV(i))
      [] kind = "removed" -> Bucket(StrV(KeyNames[i]), Nil)
      [] OTHER -> Bucket(Nil, Nil)

HashParts ==
    UNION { { [i \in 1..n |-> BucketOfKind(kinds[i], i)] :
                kinds \in [1..n -> {"string", "integer", "removed", "empty"}] } :
            n \in 0..MaxBuckets }

InitKeys ==
    /\ cL \in { [HostInit EXCEPT !.heap[T.v].node = node] : node \in HashParts }
    /\ last = [op |-> "none"]
    /\ nops = 0

ScanKey(idx, from, keys) ==
    /\ \E r \in {lclient_tablekey(cL, DPath(<<FrameLocal(0, 2)>>), idx)} :
       /\ cL' = r.h
       /\ last' = Called("tablekey", <<DPath(<<FrameLocal(0, 2)>>), DVal(IntV(idx))>>, r,
                         [from |-> from,
                          keys |-> IF r.ret = <<>> THEN keys ELSE Append(keys, r.ret[1].v)])
    /\ nops' = nops + 1

NextKeys ==
    \/ /\ last.op = "none"
       /\ \E start \in -1..(MaxBuckets + 1) : ScanKey(start, start, <<>>)
    \/ /\ last.op = "tablekey"
       /\ last.ret # <<>>
       /\ ScanKey(last.ret[2].v, last.x.from, last.x.keys)

SpecKeys == InitKeys /\ [][NextKeys]_vars

(* The buckets of a hash part, counted from 0, that hold a string key, and *)
(* the string keys of the buckets from i on in bucket order.               *)
StringBuckets(node) ==
    {i \in 0..(Len(node) - 1) : node[i + 1].k.t = LUA_TSTRING /\ node[i + 1].v # Nil}

RECURSIVE StringKeysFrom(_, _)
StringKeysFrom(node, i) ==
    IF i >= Len(node) THEN <<>>
    ELSE (IF i \in StringBuckets(node) THEN <<node[i + 1].k.v>> ELSE <<>>)
             \o StringKeysFrom(node, i + 1)

(* What a call of tablekey with the given start is to return. *)
NextStringKey(node, start) ==
    LET later == {i \in StringBuckets(node) : i >= start} IN
    IF later = {} THEN <<>>
    ELSE <<DVal(node[MinOf(later) + 1].k), DVal(IntV(MinOf(later) + 1))>>

(* C28: tablekey(t, start) returns (k, i + 1) where i is the smallest       *)
(* bucket index >= start whose key is a string k, and nothing when there   *)
(* is no such bucket; a scan from start = 0 that feeds back the returned   *)
(* index ends, after at most one call per bucket and one more, having      *)
(* returned every string key of the hash part exactly once in bucket       *)
(* order; every call leaves the host stack at the depth it found it.       *)
C28_TableKey ==
    last.op = "tablekey" =>
        LET node == cL.heap[T.v].node IN
        /\ last.ret = NextStringKey(node, last.args[2].v)
        /\ lua_gettop(cL) = last.top0
        /\ last.x.from = 0 => nops <= Cardinality(StringBuckets(node)) + 1
        /\ (last.x.from = 0 /\ last.ret = <<>>) => last.x.keys = StringKeysFrom(node, 0)

----------------------------------------------------------------------------
(* The bytes of a ValuePath.  A path is one userdata block; the block is   *)
(* modelled as its sequence of bytes.  The first byte of a struct value    *)
(* stands for its type and its index (or its local pair), the other bytes  *)
(* of the struct are padding; a byte of a key is the i-th byte of the      *)
(* string s; a byte nothing has been written to is junk.  A struct whose   *)
(* index has not been assigned yet has c = "type".                         *)

sizeof_struct_value == 8

Cell(c, step, s, i) == [c |-> c, step |-> step, s |-> s, i |-> i]

Junk == Cell("junk", Step("", 0), "", 0)

(* The bytes of one struct value holding step. *)
StructBytes(c, step) ==
    [k \in 1..sizeof_struct_value |->
        IF k = 1 THEN Cell(c, step, "", 0) ELSE Cell("pad", Step("", 0), "", k - 1)]

StringBytes(s) == [k \in 1..Len(s) |-> Cell("chr", Step("", 0), s, k)]

luadbg_newuserdata(sz) == [k \in 1..sz |-> Junk]

(* v->index = index and v->local = (frame, n), v being the head of mem. *)
SetIndex(mem, index) ==
    [mem EXCEPT ![1] = Cell("hdr", [@.step EXCEPT !.index = index], "", 0)]

SetLocal(mem, frame, n) ==
    [mem EXCEPT ![1] = Cell("hdr", [@.step EXCEPT !.frame = frame, !.n = n], "", 0)]

(* sizeof_value(v), v being the struct at byte offset o of mem:            *)
(* [n |-> the size returned, ub |-> whether bytes outside the block, or    *)
(* bytes never written, were read as a struct].                            *)
RECURSIVE sizeof_value(_, _)
sizeof_value(mem, o) ==
    IF o < 0 \/ o + sizeof_struct_value > Len(mem) \/ mem[o + 1].c \notin {"hdr", "type"}
    THEN [n |-> 0, ub |-> TRUE]
    ELSE LET v == mem[o + 1].step
             known == mem[o + 1].c = "hdr"
             rest(at) == Only({ [n |-> r.n + (at - o), ub |-> r.ub]
                                : r \in {sizeof_value(mem, at)} })
         IN  CASE v.type \in {"FRAME_LOCAL", "FRAME_FUNC", "GLOBAL", "REGISTRY", "STACK"} ->
                    [n |-> sizeof_struct_value, ub |-> FALSE]
               [] v.type \in {"INDEX_STR", "METATABLE"} /\ ~known ->
                    [n |-> 0, ub |-> TRUE]
               [] v.type = "INDEX_STR" ->
                    rest(o + sizeof_struct_value + v.index)
               [] v.type = "METATABLE" /\ v.index # LUA_TTABLE /\ v.index # LUA_TUSERDATA ->
                    [n |-> sizeof_struct_value, ub |-> FALSE]
               [] v.type \in {"METATABLE", "UPVALUE", "USERVALUE",
                              "INDEX_KEY", "INDEX_VAL", "INDEX_INT"} ->
                    rest(o + sizeof_struct_value)
               [] OTHER -> [n |-> 0, ub |-> FALSE]

(* create_value(L, type): a block of one struct. *)
create_value0(type) ==
    memcpy(luadbg_newuserdata(sizeof_struct_value), 0,
           StructBytes("type", Step(type, 0)), sizeof_struct_value)

(* create_value that copies the inner path right behind the new struct. *)
create_value_front(type, f, extrasz) ==
    Only({
      memcpy(memcpy(luadbg_newuserdata(sz + sizeof_struct_value + extrasz), 0,
                    StructBytes("type", Step(type, 0)), sizeof_struct_value),
             sizeof_struct_value, f, sz)
    : sz \in {sizeof_value(f, 0).n} })

(* create_value(L, type, t, extrasz), f being the block of the path at t. *)
create_value(type, f, extrasz) ==
    Only({
      memcpy(memcpy(luadbg_newuserdata(sz + sizeof_struct_value + extrasz), 0,
                    StructBytes("type", Step(type, 0)), sizeof_struct_value),
             sizeof_struct_value + extrasz, f, sz)
    : sz \in {sizeof_value(f, 0).n} })

(* The block get_registry_value(L, name, ref) fills. *)
registry_value_block(name, ref) ==
    Only({
      memcpy(memcpy(memcpy(memcpy(luadbg_newuserdata(3 * sizeof_struct_value + len), 0,
                                  StructBytes("hdr", Step("INDEX_INT", ref)),
                                  sizeof_struct_value),
                           sizeof_struct_value,
                           StructBytes("hdr", Step("INDEX_STR", len)), sizeof_struct_value),
                    2 * sizeof_struct_value, StringBytes(name), len),
             2 * sizeof_struct_value + len,
             StructBytes("hdr", Step("REGISTRY", 0)), sizeof_struct_value)
    : len \in {Len(name)} })

(* The constructors as actions.  last.mem is the block built, last.inner   *)
(* the block of the path it was built over (empty for a root) and          *)
(* last.extrasz the bytes asked for between the new struct and the copy.   *)
Built(by, mem, inner, extrasz) ==
    /\ last' = [op |-> "path", by |-> by, mem |-> mem, inner |-> inner, extrasz |-> extrasz]
    /\ nops' = nops + 1
    /\ UNCHANGED cL

(* get_frame_local, get_frame_func, get_registry *)
NewRoot ==
    \/ \E frame \in 0..1, n \in {-1, 1} :
           Built("get_frame_local", SetLocal(create_value0("FRAME_LOCAL"), frame, n), <<>>, 0)
    \/ \E frame \in 0..1 :
           Built("get_frame_func", SetIndex(create_value0("FRAME_FUNC"), frame), <<>>, 0)
    \/ \E type \in {"GLOBAL", "REGISTRY"} :
           Built("get_registry", SetIndex(create_value0(type), 0), <<>>, 0)

(* get_registry_value *)
NewRegistryValue(name, ref) ==
    Built("get_registry_value", registry_value_block(name, ref), <<>>, 0)

(* new_index, get_upvalue, get_uservalue, combine_key, combine_val *)
NewStep(type, index) ==
    /\ last.op = "path"
    /\ Built(type, SetIndex(create_value(type, last.mem, 0), index), last.mem, 0)

(* new_field *)
NewField(str) ==
    /\ last.op = "path"
    /\ Built("new_field",
             memcpy(SetIndex(create_value("INDEX_STR", last.mem, Len(str)), Len(str)),
                    sizeof_struct_value, StringBytes(str), Len(str)),
             last.mem, Len(str))

(* get_metatable, t being the type of the value the path resolves to. *)
NewMetatable(t) ==
    /\ last.op = "path"
    /\ IF t = LUA_TTABLE \/ t = LUA_TUSERDATA
       THEN Built("get_metatable", SetIndex(create_value("METATABLE", last.mem, 0), t),
                  last.mem, 0)
       ELSE Built("get_metatable", SetIndex(create_value0("METATABLE"), t), <<>>, 0)

NextSize ==
    /\ nops < MaxSteps
    /\ \/ NewRoot
       \/ \E name \in {"__debugger_ref", "__debugger_watch"}, ref \in {-1, 2} :
              NewRegistryValue(name, ref)
       \/ \E type \in {"INDEX_INT", "UPVALUE", "USERVALUE", "INDEX_KEY", "INDEX_VAL"},
             index \in {1} : NewStep(type, index)
       \/ \E str \in {"", "a", "key"} : NewField(str)
       \/ \E t \in {LUA_TTABLE, LUA_TUSERDATA, LUA_TSTRING, LUA_TFUNCTION} : NewMetatable(t)

SpecSize == Init /\ [][NextSize]_vars

(* C29: for every path the constructors build, sizeof_value of the result  *)
(* is the number of bytes allocated for it; the bytes of the inner path    *)
(* are found unmodified behind the new struct and its extra bytes; and a   *)
(* METATABLE step whose base type is neither table nor userdata is one     *)
(* struct, with no inner path.                                             *)
C29_PathSize ==
    last.op = "path" =>
        /\ sizeof_value(last.mem, 0) = [n |-> Len(last.mem), ub |-> FALSE]
        /\ last.inner # <<>> =>
               /\ Len(last.mem) = sizeof_struct_value + last.extrasz + Len(last.inner)
               /\ SubSeq(last.mem, sizeof_struct_value + last.extrasz + 1, Len(last.mem))
                      = last.inner
        /\ (/\ last.mem[1].step.type = "METATABLE"
            /\ last.mem[1].step.index \notin {LUA_TTABLE, LUA_TUSERDATA})
               => (Len(last.mem) = sizeof_struct_value /\ last.inner = <<>>)

(* A field step with a key of three bytes built over a path of two steps. *)
C29_Witness ==
    /\ last.op = "path"
    /\ last.by = "new_field"
    /\ last.extrasz = 3
    /\ Len(last.inner) > sizeof_struct_value
    /\ Len(last.mem) = Len(last.inner) + sizeof_struct_value + 3

----------------------------------------------------------------------------
(* Sessions of load, watch and cleanwatch.  last.issued keeps, for every   *)
(* path a watch call of the session has returned, the path and the value   *)
(* it resolved to when it was returned.                                    *)

Held == IF last.op = "none" THEN <<>> ELSE last.issued

Session(op, r, issued) ==
    /\ cL' = r.h
    /\ last' = [op |-> op, ret |-> r.ret, issued |-> issued]
    /\ nops' = nops + 1

SessionLoad(source) ==
    \E r \in {lclient_load(cL, source)} : Session("load", r, Held)

SessionWatch(args) ==
    \E r \in {lclient_watch(cL, args)} :
        Session("watch", r,
                IF r.err = "" /\ r.ret[1] = DVal(BoolV(TRUE))
                THEN Held \o [i \in 1..(Len(r.ret) - 1) |->
                                 [d |-> r.ret[i + 1], x |-> Evaluated(r.h, r.ret[i + 1].p).x]]
                ELSE Held)

SessionClean ==
    \E r \in {lclient_cleanwatch(cL)} : Session("cleanwatch", r, Held)

WatchSources == {"return {}", "return 1, {}"}

WatchCalls == AnchorCalls \cup {<<DPath(<<Step("FRAME_FUNC", 0)>>)>>}

NextWatch ==
    /\ nops < MaxWatchOps
    /\ cL.under = 0
    /\ \/ \E source \in WatchSources : SessionLoad(source)
       \/ \E args \in WatchCalls : SessionWatch(args)
       \/ SessionClean

SpecWatch == Init /\ [][NextWatch]_vars

(* C30: over any sequence of watch and cleanwatch calls, a path a watch    *)
(* call returned never resolves to a value other than the result it was    *)
(* issued for; after a cleanwatch and later watch calls, a path issued     *)
(* before the cleanwatch resolves to no value anchored after it.           *)
C30_WatchPathsStay ==
    last.op # "none" =>
        \A i \in 1..Len(last.issued) :
            \E e \in {Evaluated(cL, last.issued[i].d.p)} :
                e.t = LUA_TNONE \/ e.x = last.issued[i].x

----------------------------------------------------------------------------
(* One call of index or indexv on the paused host, with integer keys on    *)
(* both sides of the accepted range.                                       *)

IndexKeys == {DVal(IntV(-1)), DVal(IntV(0)), DVal(IntV(1)), DVal(IntV(2)),
              DVal(IntV(INT_MAX)), DVal(WideV(1))}

NextIndex ==
    /\ Once
    /\ \E dt \in PathArgs, dk \in IndexKeys, getref \in BOOLEAN : Index(dt, dk, getref)

SpecIndex == Init /\ [][NextIndex]_vars

(* C31: index and indexv raise a user error, with the host untouched, when *)
(* the integer key is <= 0 or greater than INT_MAX; for every other key k, *)
(* on a path that resolves to a table, they raise no error, the path       *)
(* returned is the step INDEX_INT(k) over the table's path, evaluating it  *)
(* yields the raw value table[k], and the value indexv returns is that raw *)
(* value.                                                                  *)
C31_IndexKey ==
    last.op \in {"index", "indexv"} =>
        LET dt == last.args[1]
            dk == last.args[2]
            accepted == dk.fl = 0 /\ dk.v > 0 /\ dk.v <= INT_MAX
            raw == RawGet(cL.heap[Evaluated(cL, dt.p).x.v], IntV(dk.v))
        IN  /\ ~accepted => (last.err # "" /\ last.ret = <<>> /\ cL = HostInit)
            /\ (accepted /\ last.t1 = LUA_TTABLE) =>
                   /\ last.err = ""
                   /\ Len(last.ret) = 1
                   /\ IF last.ret[1].t = LUA_TUSERDATA
                      THEN /\ last.ret[1].p = <<Step("INDEX_INT", dk.v)>> \o dt.p
                           /\ Evaluated(cL, last.ret[1].p) = [t |-> raw.t, x |-> raw]
                      ELSE last.op = "indexv" /\ last.ret[1] = DVal(raw)

(* index with the greatest accepted key, and with a key the table holds. *)
C31_Witness ==
    /\ last.op = "index"
    /\ last.args[2] \in {DVal(IntV(INT_MAX)), DVal(IntV(1))}
    /\ last.ret # <<>>
    /\ last.ret[1].p[1] = Step("INDEX_INT", last.args[2].v)
    /\ last.args[2] = DVal(IntV(1)) => Evaluated(cL, last.ret[1].p).x = IntV(10)

----------------------------------------------------------------------------
(* One call of assign on the paused host whose second argument is a path   *)
(* that does not resolve (no such frame, no such local, an index into a    *)
(* number, a user value slot the userdata lacks, an upvalue the function   *)
(* lacks, the metatable of a type that has no receiver) or a value of the  *)
(* debugger's own that is neither a primitive nor a path.                  *)

DFunction == [t |-> LUA_TFUNCTION, fl |-> 0, v |-> 0, p |-> <<>>]

UnresolvedValues ==
    { DPath(<<FrameLocal(1, 1)>>),
      DPath(<<FrameLocal(0, 5)>>),
      DPath(<<Step("INDEX_INT", 1), FrameLocal(0, 1)>>),
      DPath(<<Step("USERVALUE", 3), FrameLocal(0, 3)>>),
      DPath(<<Step("UPVALUE", 3), Step("FRAME_FUNC", 0)>>),
      DPath(<<Step("METATABLE", LUA_TFUNCTION)>>) }

Aggregates == {DTable, DMap(<<>>), DFunction}

NextAssign ==
    /\ Once
    /\ \E d1 \in PathArgs, d2 \in UnresolvedValues \cup Aggregates : Assign(d1, d2)

SpecAssign == Init /\ [][NextAssign]_vars

(* C32: assign(target, value) with a value that is a path that does not    *)
(* resolve does what assign(target, nil) does: it returns what that call   *)
(* returns, true when the target is assignable, and leaves the host's      *)
(* objects, locals and type metatables as that call leaves them; with a    *)
(* value that is a table or a function of the debugger it raises 'Invalid  *)
(* value type' and leaves the host, its stack and the target included, as  *)
(* it was.                                                                 *)
C32_AssignUnresolved ==
    last.op = "assign" =>
        /\ last.args[2].t = LUA_TUSERDATA =>
               \E nil \in {lclient_assign(HostInit, last.args[1], DVal(Nil))} :
                   /\ last.ret = nil.ret
                   /\ last.err = nil.err
                   /\ cL.heap = nil.h.heap
                   /\ cL.frames = nil.h.frames
                   /\ cL.tmeta = nil.h.tmeta
        /\ last.args[2].t \in {LUA_TTABLE, LUA_TFUNCTION} =>
               /\ last.err = "Invalid value type"
               /\ last.ret = <<>>
               /\ cL = HostInit

(* The local holding 7 has been assigned a path that names no frame. *)
C32_Witness ==
    /\ last.op = "assign"
    /\ last.args = <<DPath(<<FrameLocal(0, 1)>>), DPath(<<FrameLocal(1, 1)>>)>>
    /\ last.ret = <<DVal(BoolV(TRUE))>>
    /\ cL.frames[1].locals[1] = Nil

----------------------------------------------------------------------------
(* One call of eval or watch on the paused host, with every kind of first  *)
(* argument, and with no argument at all; for the latter the slot above    *)
(* the host stack top holds a value the host left there.                   *)

FirstArgs ==
    PathArgs \cup {DVal(x) : x \in Primitives} \cup Aggregates

NeedArgs == {<<f>> \o a : f \in FirstArgs, a \in {<<>>, <<DVal(IntV(5))>>}}

AboveValues == {Nil, IntV(42), T, F}

Bare(op, r) ==
    /\ cL' = r.h
    /\ last' = [op |-> op, top0 |-> lua_gettop(cL), args |-> <<>>,
                t1 |-> LUA_TNONE, push1 |-> 0, ret |-> r.ret, err |-> r.err,
                x |-> [called |-> r.called, threw |-> r.threw, argsok |-> TRUE]]
    /\ nops' = nops + 1

EvalBare(x) ==
    \E r \in {lclient_eval([cL EXCEPT !.above = x], <<>>)} : Bare("eval", r)

WatchBare(x) ==
    \E r \in {lclient_watch([cL EXCEPT !.above = x], <<>>)} : Bare("watch", r)

NextNeed ==
    /\ Once
    /\ \/ \E args \in NeedArgs : Eval(args)
       \/ \E args \in NeedArgs : Watch(args)
       \/ \E x \in AboveValues : EvalBare(x)
       \/ \E x \in AboveValues : WatchBare(x)

SpecNeed == Init /\ [][NextNeed]_vars

(* C33: eval and watch make the protected host call only when their first  *)
(* argument denotes a host function: called with no argument, or with a    *)
(* first argument that is anything else, they raise 'need function', make  *)
(* no host call and leave the host stack at the depth they found it.       *)
C33_NeedFunction ==
    (last.op \in {"eval", "watch"} /\ (last.args = <<>> \/ last.t1 # LUA_TFUNCTION)) =>
        /\ last.err = "need function"
        /\ ~last.x.called
        /\ lua_gettop(cL) = last.top0
====
